---- MODULE Spec2Model ----
(***************************************************************************)
(* SmugMug -> Google Drive migration tool.                                 *)
(*                                                                         *)
(* The module models the migration engine of src/smugmug_to_gdrive.py      *)
(* (migrate, the CLI variant) and of src/smugmug_to_gdrive_gui.py          *)
(* (MigrationApp._run_migration, the GUI variant), the progress ledger     *)
(* (MigrationState) and the paginated listing calls of SmugMugClient.      *)
(*                                                                         *)
(* Spec      the engine: runs of migrate / _run_migration, one step per    *)
(*           external call, with a process crash possible between any two  *)
(*           steps and restarts against the same ledger file and the same  *)
(*           destination.                                                  *)
(* SpecPage  the pagination loop of get_albums / get_album_images against  *)
(*           a provider that serves pages of at most pgP items.            *)
(* SpecPageAny, SpecPageFair  the same loop against a provider that may    *)
(*           also never run out of items; the second with the loop's       *)
(*           steps taken as long as one is possible.                       *)
(* SpecLoad, SpecReset, SpecFolder  the ledger's load over any file        *)
(*           content, the Reset Progress button, the folder resolution.    *)
(* SpecListing  the engine with its listings made page by page, any page   *)
(*           request of which may fail.                                    *)
(* SpecApp   the GUI's Start and Stop buttons, its migration threads and   *)
(*           the callbacks they queue for the main loop.                   *)
(* SpecLocator  get_image_download_url and the engine's test of its       *)
(*           result.                                                       *)
(* SpecPath  the folder path computed from an album's UrlPath.             *)
(* SpecFolderRace  the folder resolution by two runs at the same time.     *)
(* SpecTrip  a save of the ledger and its load by a new MigrationState.    *)
(* SpecAgree the image loops of the two engines on the same inputs.        *)
(***************************************************************************)
EXTENDS Integers, Sequences, FiniteSets, TLC

\* ------------------------------------------------------------------ bounds
\* Items of the short catalog (two albums: NShort-1 items, then 1 item).
NShort == 2
\* Runs started against one ledger file and destination.
MaxRuns == 2
\* Longest listing and largest provider page size of the pagination model.
MaxN == 5
MaxP == 3
\* Longest UrlPath, in characters, of the folder path model.
MaxPath == 5
\* Image keys of the ledgers that are saved and loaded back.
MaxKeys == 3
\* Images of the album on which the two engines' loops are compared.
MaxAgree == 2
\* Presses of the GUI's Reset Progress button.
MaxResets == 1
\* Runs of the folder resolution against one destination.
MaxFolderRuns == 2
\* Migration threads the GUI may start, and the images each has to process.
MaxThreads == 2
WorkItems == 2

\* ------------------------------------------------------- program constants
\* "every 10 files": the modulus of the periodic save.
SaveEvery == 10
\* params = {"count": 100, "start": 1}
PageCount == 100
PageStart == 1

\* The long catalog holds one item more than a save period.
NLong == SaveEvery + 1

Items == 1 .. NLong

Range(a, b) == [k \in 1 .. (b - a + 1) |-> a + k - 1]

\* The source catalogs a run is made against: a sequence of albums, each the
\* sequence of its image keys in listing order.  FileName is the identity on
\* keys: every image of a catalog has its own file name.
EmptyCatalog == << >>
ShortCatalog == << Range(1, NShort - 1), << NShort >> >>
LongCatalog == << Range(1, NLong) >>

\* (catalog, network).  "ok": every locator resolves and every download and
\* upload succeeds; "flaky": every download and upload may fail; "nourl": the
\* source gives no download URL for any image;
\* "raising": as "ok", but a Drive query (file_exists, get_or_create_folder) or
\* tempfile.NamedTemporaryFile may raise.
Scenarios ==
    { << EmptyCatalog, "ok" >>, << ShortCatalog, "flaky" >>,
      << ShortCatalog, "raising" >>, << ShortCatalog, "nourl" >>,
      << LongCatalog, "ok" >>, << LongCatalog, "nourl" >> }

CatalogItems(c) == UNION { { c[a][k] : k \in 1 .. Len(c[a]) } : a \in 1 .. Len(c) }

NoReason == "none"
\* The reasons mark_failed records: "nourl" (no download URL), "tempfile" (the
\* message of the staging-file error), "download" (download_image returned
\* False), "upload" (the message of the upload error).
\* The calls recorded for an item: "exists", "locator", "tempfile", "download",
\* "upload".

VARIABLES
    \* ---- the environment
    variant,         \* "cli" | "gui"
    catalog,         \* the source catalog
    network,         \* "ok" | "flaky" | "raising" | "nourl": what the external calls may do
    stateFile,       \* the ledger file: [present, valid, migrated, failed]
    destFiles,       \* item -> number of non-trashed files of that name in its album folder
    destFolders,     \* names of the folders that exist at the destination
    \* ---- one run (lost when the process dies)
    pc,
    dry_run, skip_existing, retry_failed,
    state,           \* MigrationState: [migrated, failed]
    albums,          \* result of get_albums / the selected albums
    albumIdx,
    images,          \* images of the current album
    imgIdx,
    migrated_count, skipped_count, failed_count, overall_done,
    \* ---- history (not read by the program)
    runs,            \* runs started so far
    ended,           \* how the last run ended
    prevEnded,       \* how the run before the current one ended, and whether it was a dry run
    atStart,         \* snapshots taken when the run started / loaded the ledger,
                     \* who was authenticated, the items the paged listings returned
    calls,           \* item -> external calls made for it in the current run
    outcome,         \* item -> counter incremented for it in the current run
    report,          \* item -> status line printed by a dry run
    uploads,         \* item -> successful uploads over all runs
    allSkipExisting, \* every run so far had skip_existing = TRUE
    \* ---- staging files, the GUI's buttons, the end of a run
    tmp_path,        \* the run's local tmp_path: unbound, None or a staging file
    tmpFiles,        \* items whose staging file is on the local disk
    stop_flag,       \* GUI: threading.Event set by the Stop button
    lateStarts,      \* history: items and albums begun with the stop flag set
    stale,           \* history: items whose ledger entry predates the last reset
    resets,          \* history: Reset Progress presses so far
    atEnd,           \* history: ledger and counters the last run ended with
    \* ---- folder resolution (get_or_create_folder)
    fScen,           \* [rootName, paths]: the root folder name and the albums' path_parts
    fDrive,          \* the non-trashed folders at the destination: [id, name, parent]
    fRun,            \* run -> its position, its GoogleDriveClient cache, what it made
    \* ---- what the CLI finds in its environment and working directory
    credentials,     \* [environ, dotenv, token, client]
    \* ---- the GUI's buttons and migration threads
    app,             \* [start_btn, stop_btn, stop_flag, after, thread]
    \* ---- pagination loop
    pgPc, pgCall, pgN, pgP, pgTotal, pgStart, pgAcc, pgFailed, pgRequests,
    pgProvider,      \* "paged" | "endless": how the provider answers past the end
    \* ---- one call of get_image_download_url and what the engine does next
    loc,             \* [pc, largest, download, asked, url, ops, failed]
    \* ---- the folder path of one album
    pth,             \* [pc, url_path, parts]
    \* ---- one save of a ledger and its load by a new MigrationState
    rt,              \* [pc, ledger, text, loaded]
    \* ---- the two engines' image loops, side by side on the same inputs
    ag               \* [idx, flags, oracle, cli, gui]

envVars == << variant, catalog, network, stateFile, destFiles, destFolders >>
runVars == << pc, dry_run, skip_existing, retry_failed, state, albums, albumIdx,
              images, imgIdx, migrated_count, skipped_count, failed_count,
              overall_done >>
histVars == << runs, ended, prevEnded, atStart, calls, outcome, report, uploads,
               allSkipExisting >>
pageVars == << pgPc, pgCall, pgN, pgP, pgTotal, pgStart, pgAcc, pgFailed, pgRequests,
              pgProvider >>
auxVars == << tmp_path, tmpFiles, stop_flag, lateStarts, stale, resets, atEnd >>
folderVars == << fScen, fDrive, fRun >>
credVars == << credentials >>
appVars == << app >>
locVars == << loc >>
pathVars == << pth >>
tripVars == << rt >>
agreeVars == << ag >>
\* What the engine's steps leave alone.
sideVars == << pageVars, folderVars, credVars, appVars, locVars, pathVars, tripVars, agreeVars >>
vars == << envVars, runVars, histVars, pageVars, auxVars, folderVars, credVars,
          appVars, locVars, pathVars, tripVars, agreeVars >>

\* ------------------------------------------------------- the credentials
\* environ: SMUGMUG_API_KEY and SMUGMUG_API_SECRET are both in os.environ;
\* dotenv: a .env file in the working directory gives both; token: the saved
\* Google token is there and valid; client: google_credentials.json is there.
CredentialCases ==
    [environ : BOOLEAN, dotenv : BOOLEAN, token : BOOLEAN, client : BOOLEAN]
AllCredentials ==
    [environ |-> TRUE, dotenv |-> FALSE, token |-> TRUE, client |-> TRUE]

\* Faulty variant of the credentials test: the .env file is not read.
environ_only(c) == c.environ

\* migrate: "if not api_key or not api_secret" after os.environ and then the
\* .env file have been read.
SourceCredentials(c) == c.environ \/ c.dotenv

\* GoogleDriveClient.authenticate gets credentials: a valid saved token, or the
\* client file for a new authorization ("if not os.path.exists(GOOGLE_CREDS_FILE)").
DestCredentials(c) == c.token \/ c.client

\* Faulty variant of the exit status: every end reports success.
exit_always_zero(how) == 0

\* The exit status of the CLI process for each way migrate ends: sys.exit(1)
\* without credentials; an exception nothing catches ends the interpreter with
\* status 1; a return from migrate, and then from main, ends it with status 0.
ExitStatus(how) ==
    IF how \in { "nosource", "nodest" } THEN 1
    ELSE IF how \in { "fatal", "aborted" } THEN 1
    ELSE 0

\* No process has exited (the GUI's thread ends, the application goes on).
NoExit == -1

\* ------------------------------------------------------------ the ledger
NoFailures == [i \in Items |-> NoReason]
EmptyLedger == [migrated |-> {}, failed |-> NoFailures]
\* The ledger file: absent, or present with text that json.load parses
\* (valid) or rejects.
AbsentFile ==
    [present |-> FALSE, valid |-> TRUE, migrated |-> {}, failed |-> NoFailures]

\* json.load raises on the file's text.
Unparsable(file) == file.present /\ ~file.valid

\* Faulty variant of _load: the file is not read.
load_forgets(file) == EmptyLedger

\* MigrationState._load: an absent file leaves the empty sets of __init__.
LoadState(file) ==
    IF file.present
    THEN [migrated |-> file.migrated, failed |-> file.failed]
    ELSE EmptyLedger

\* MigrationState.save, first half: open(STATE_FILE, "w") truncates the file in
\* place; until json.dump has written all of the text and the file is closed
\* the file holds no text or a prefix of it, neither of which parses.
OpenForWrite(file) ==
    [present |-> TRUE, valid |-> FALSE, migrated |-> {}, failed |-> NoFailures]

\* MigrationState.save, second half: json.dump has written both collections.
SaveState(st) ==
    [present |-> TRUE, valid |-> TRUE, migrated |-> st.migrated,
     failed |-> st.failed]

\* No ledger is being saved and loaded back.
NoText == [written |-> FALSE, migrated |-> << >>, failed |-> {}]
NewTrip == [pc |-> "off", ledger |-> EmptyLedger, text |-> NoText,
            loaded |-> EmptyLedger]
IdleTrip == rt = NewTrip

\* The two image loops have not been set side by side.
NoLoop == [st |-> EmptyLedger, bound |-> FALSE, over |-> FALSE, acts |-> << >>]
NewAgree ==
    [idx |-> 0, flags |-> [skip_existing |-> FALSE, retry_failed |-> FALSE],
     oracle |-> << >>, cli |-> NoLoop, gui |-> NoLoop]
IdleAgree == ag = NewAgree

\* Faulty variant of mark_done: the failure entry is not popped.
mark_done_keeps_failure(st, key) ==
    [st EXCEPT !.migrated = @ \cup { key }]

\* MigrationState.mark_done: add to migrated, pop from failed.
mark_done(st, key) ==
    [st EXCEPT !.migrated = @ \cup { key }, !.failed[key] = NoReason]

\* Faulty variant of mark_failed: the item is recorded done.
mark_failed_as_done(st, key, error) ==
    [st EXCEPT !.migrated = @ \cup { key }]

\* Faulty variant of mark_failed: the failure is not recorded.
mark_failed_dropped(st, key, error) == st

\* MigrationState.mark_failed
mark_failed(st, key, error) ==
    [st EXCEPT !.failed[key] = error]

\* Faulty variant of is_done: the done set is never consulted.
is_done_never(st, key) == FALSE

\* MigrationState.is_done
is_done(st, key) == key \in st.migrated

in_failed(st, key) == st.failed[key] # NoReason

\* ------------------------------------------------------------ the source
\* What a request of the given HTTP method leaves of the source: a GET reads
\* it, a DELETE removes what it names.
SourceAfter(method, src) == IF method = "GET" THEN src ELSE << >>

\* Faulty variant of the source request: a deleting request.
session_delete(src) == SourceAfter("DELETE", src)

\* SmugMugClient._get and download_image: self.session.get(url, ...), the only
\* request made to the source.
session_get(src) == SourceAfter("GET", src)

\* ------------------------------------------------------- the destination
\* Faulty variant of file_exists: the query never finds the file.
file_exists_never(files, filename) == FALSE

\* GoogleDriveClient.file_exists: a non-trashed file of that name in the folder.
file_exists(files, filename) == files[filename] > 0

\* A destination folder is named by its path below the root folder.
RootFolder == << >>
\* The album's folder: one path segment per album in these catalogs.
AlbumFolder(a) == << a >>

\* --------------------------------------------------- the transfer policy
\* Faulty variant of the first skip test: the retry flag is not looked at.
skip_migrated_always(st, key, retry) == is_done(st, key)

\* "if state.is_done(image_key) and not retry_failed"
SkipMigrated(st, key, retry) == is_done(st, key) /\ ~retry

\* Faulty variant of the second skip test: failed items are never skipped.
skip_failed_never(st, key, retry) == FALSE

\* "if not retry_failed and image_key in state.failed"
SkipFailed(st, key, retry) == ~retry /\ in_failed(st, key)

\* The periodic save condition at the end of the loop body:
\* CLI "(migrated_count + failed_count) % 10 == 0", GUI "overall_done % 10 == 0".
SaveDue(v, m, f, od) ==
    IF v = "cli" THEN (m + f) % SaveEvery = 0 ELSE od % SaveEvery = 0

\* Faulty variant of the loops' advance: every other image is passed over.
advance_by_two(aIdx, imgs, iIdx) ==
    IF iIdx + 1 <= Len(imgs)
    THEN [pc |-> "item", albumIdx |-> aIdx, imgIdx |-> iIdx + 1]
    ELSE IF aIdx + 1 <= Len(albums)
         THEN [pc |-> "album", albumIdx |-> aIdx + 1, imgIdx |-> 1]
         ELSE [pc |-> "finalsave", albumIdx |-> aIdx + 1, imgIdx |-> 1]

\* Where the loops go after image number iIdx - 1 of album aIdx: the next image,
\* the next album, or the final save after the last album.
Advance(aIdx, imgs, iIdx) ==
    IF iIdx <= Len(imgs)
    THEN [pc |-> "item", albumIdx |-> aIdx, imgIdx |-> iIdx]
    ELSE IF aIdx + 1 <= Len(albums)
         THEN [pc |-> "album", albumIdx |-> aIdx + 1, imgIdx |-> 1]
         ELSE [pc |-> "finalsave", albumIdx |-> aIdx + 1, imgIdx |-> 1]

NoCalls == [i \in Items |-> {}]
NoOutcome == [i \in Items |-> "none"]

\* tmp_path: not yet assigned in this call of migrate, None (the GUI assigns it
\* before each attempt), or the staging file made for an item.
Unbound == << "unbound" >>
NoPath == << "none" >>
StagingFile(key) == << "file", key >>

NoLateStarts == [items |-> {}, albums |-> {}]
NoEnd == [ledger |-> EmptyLedger, migrated |-> 0, skipped |-> 0, failed |-> 0,
          at |-> "idle", saved |-> FALSE, exit |-> NoExit]

\* ------------------------------------------------------------------ Init
IdlePage ==
    /\ pgPc = "off"
    /\ pgCall = "none"
    /\ pgN = 0
    /\ pgP = 1
    /\ pgTotal = 0
    /\ pgStart = PageStart
    /\ pgAcc = << >>
    /\ pgFailed = FALSE
    /\ pgRequests = 0
    /\ pgProvider = "paged"

\* Folder resolution is not looked at.
IdleFolders ==
    /\ fScen = [rootName |-> "none", paths |-> << >>]
    /\ fDrive = {}
    /\ fRun = << >>

\* The migration threads the GUI has started or may start.
Threads == 1 .. MaxThreads
\* MigrationApp after __init__ and _build_ui: Start enabled, Stop disabled,
\* the stop flag clear, no callback scheduled, no migration thread.
NewApp ==
    [start_btn |-> "normal", stop_btn |-> "disabled", stop_flag |-> FALSE,
     after |-> << >>, thread |-> [t \in Threads |-> [pc |-> "unborn", item |-> 0]]]

\* The GUI's buttons are not looked at.
IdleApp == app = NewApp

\* No locator has been asked for.
NoUrl == "None"
NewLoc ==
    [pc |-> "off", largest |-> "failed", download |-> "failed", asked |-> << >>,
     url |-> NoUrl, ops |-> << >>, failed |-> NoReason]
IdleLoc == loc = NewLoc

\* No folder path has been computed.
NewPath == [pc |-> "off", url_path |-> << >>, parts |-> << >>]
IdlePath == pth = NewPath

\* No run is in progress and none has been made.
IdleRun ==
    /\ pc = "idle"
    /\ dry_run = FALSE
    /\ skip_existing = TRUE
    /\ retry_failed = FALSE
    /\ state = EmptyLedger
    /\ albums = << >>
    /\ albumIdx = 1
    /\ images = << >>
    /\ imgIdx = 1
    /\ migrated_count = 0
    /\ skipped_count = 0
    /\ failed_count = 0
    /\ overall_done = 0
    /\ runs = 0
    /\ ended = "never"
    /\ prevEnded = [how |-> "never", dry |-> FALSE]
    /\ atStart = [loaded |-> FALSE, ledger |-> EmptyLedger, file |-> AbsentFile,
                  folders |-> {}, authed |-> {}, listed |-> {}]
    /\ calls = NoCalls
    /\ outcome = NoOutcome
    /\ report = NoOutcome
    /\ uploads = [i \in Items |-> 0]
    /\ allSkipExisting = TRUE
    /\ tmp_path = Unbound
    /\ tmpFiles = {}
    /\ stop_flag = FALSE
    /\ lateStarts = NoLateStarts
    /\ stale = {}
    /\ resets = 0
    /\ atEnd = NoEnd

\* No ledger file, an empty destination, no run made.
IdleEngine ==
    /\ stateFile = AbsentFile
    /\ destFiles = [i \in Items |-> 0]
    /\ destFolders = {}
    /\ IdleRun

\* A fresh installation: no ledger file, an empty destination.  The CLI is
\* run with every combination of credentials against the empty catalog, and
\* with all of them against the others.
Init ==
    /\ variant \in { "cli", "gui" }
    /\ \E sc \in Scenarios : catalog = sc[1] /\ network = sc[2]
    /\ credentials \in CredentialCases
    /\ credentials # AllCredentials => (variant = "cli" /\ catalog = EmptyCatalog)
    /\ IdleEngine
    /\ IdlePage
    /\ IdleApp
    /\ IdleLoc
    /\ IdlePath
    /\ IdleTrip
    /\ IdleAgree
    /\ IdleFolders

\* The ledger file as a run may find it (it is a local file, whatever the
\* destination account and folder hold): absent, or left unparsable.
InitLoad ==
    /\ variant \in { "cli", "gui" }
    /\ \E sc \in Scenarios : catalog = sc[1] /\ network = sc[2]
    /\ credentials \in CredentialCases
    /\ credentials # AllCredentials => (variant = "cli" /\ catalog = EmptyCatalog)
    /\ stateFile \in { AbsentFile, OpenForWrite(AbsentFile) }
    /\ destFiles = [i \in Items |-> 0]
    /\ destFolders = {}
    /\ IdleRun
    /\ IdlePage
    /\ IdleApp
    /\ IdleLoc
    /\ IdlePath
    /\ IdleTrip
    /\ IdleAgree
    /\ IdleFolders

\* ------------------------------------------------------- start and end
\* GUI: "if self.stop_flag.is_set(): break" finds the flag set.
Stopping == variant = "gui" /\ stop_flag

\* The call of migrate / the migration thread is over: its locals are gone.
EndLocals(how) ==
    /\ tmp_path' = Unbound
    /\ pc' = "idle"
    /\ state' = EmptyLedger
    /\ albums' = << >>
    /\ albumIdx' = 1
    /\ images' = << >>
    /\ imgIdx' = 1
    /\ migrated_count' = 0
    /\ skipped_count' = 0
    /\ failed_count' = 0
    /\ overall_done' = 0
    /\ ended' = how
    /\ UNCHANGED << dry_run, skip_existing, retry_failed >>

\* The run ends with the ledger st in memory.  "saved"
\* tells whether the run wrote the whole of st to the ledger file as its last
\* act (the final state.save()).
EndRunWith(how, st, failed, saved) ==
    /\ atEnd' = [ledger |-> st, migrated |-> migrated_count,
                 skipped |-> skipped_count, failed |-> failed, at |-> pc,
                 saved |-> saved,
                 exit |-> IF variant = "cli" THEN ExitStatus(how) ELSE NoExit]
    /\ EndLocals(how)

EndRun(how) == EndRunWith(how, state, failed_count, FALSE)

\* What the actions that end a run leave alone besides the environment.
EndKeeps ==
    UNCHANGED << runs, prevEnded, atStart, calls, outcome, report, uploads,
                 allSkipExisting, sideVars, tmpFiles, stop_flag, lateStarts,
                 stale, resets >>

\* main() -> migrate(...) with the parsed flags; _start_migration -> the
\* migration thread with the two check boxes (the GUI has no dry run and needs
\* at least one selected album).
StartRun ==
    /\ pc = "idle"
    /\ runs < MaxRuns
    /\ variant = "gui" => catalog # << >>
    /\ dry_run' \in (IF variant = "cli" THEN BOOLEAN ELSE { FALSE })
    /\ skip_existing' \in BOOLEAN
    /\ retry_failed' \in BOOLEAN
    /\ pc' = IF variant = "cli" THEN "credentials" ELSE "count"
    /\ runs' = runs + 1
    /\ prevEnded' = [how |-> ended, dry |-> dry_run]
    /\ ended' = "running"
    /\ atStart' = [loaded |-> FALSE, ledger |-> EmptyLedger, file |-> stateFile,
                   folders |-> destFolders, authed |-> {}, listed |-> {}]
    /\ calls' = NoCalls
    /\ outcome' = NoOutcome
    /\ report' = NoOutcome
    /\ allSkipExisting' = (allSkipExisting /\ skip_existing')
    /\ stop_flag' = FALSE
    /\ lateStarts' = NoLateStarts
    /\ atEnd' = NoEnd
    /\ UNCHANGED << envVars, state, albums, albumIdx, images, imgIdx,
                    migrated_count, skipped_count, failed_count, overall_done,
                    uploads, sideVars, tmp_path, tmpFiles, stale, resets >>

\* What the steps of migrate before the ledger is loaded leave alone.
PreambleKeeps ==
    UNCHANGED << envVars, dry_run, skip_existing, retry_failed, state, albums,
                 albumIdx, images, imgIdx, migrated_count, skipped_count,
                 failed_count, overall_done, runs, ended, prevEnded, calls,
                 outcome, report, uploads, allSkipExisting, sideVars, auxVars >>

\* CLI: no SmugMug credentials in the environment or the .env file: the error
\* is printed and sys.exit(1) ends the process.
CredentialsMissing ==
    /\ pc = "credentials"
    /\ ~SourceCredentials(credentials)
    /\ EndRun("nosource")
    /\ UNCHANGED envVars
    /\ EndKeeps

\* CLI: smugmug = SmugMugClient(api_key, api_secret); smugmug.authenticate()
SourceAuthenticate ==
    /\ pc = "credentials"
    /\ SourceCredentials(credentials)
    /\ atStart' = [atStart EXCEPT !.authed = @ \cup { "source" }]
    /\ pc' = "destauth"
    /\ PreambleKeeps

\* CLI: gdrive.authenticate() with a valid token or through the client file.
DestAuthenticate ==
    /\ pc = "destauth"
    /\ DestCredentials(credentials)
    /\ atStart' = [atStart EXCEPT !.authed = @ \cup { "dest" }]
    /\ pc' = "load"
    /\ PreambleKeeps

\* CLI: gdrive.authenticate() finds no valid token and no client file: the
\* error is printed and sys.exit(1) ends the process.
DestCredentialsMissing ==
    /\ pc = "destauth"
    /\ ~DestCredentials(credentials)
    /\ EndRun("nodest")
    /\ UNCHANGED envVars
    /\ EndKeeps

\* state = MigrationState(): json.load parsed the file, or there is no file.
Load ==
    /\ pc = "load"
    /\ ~Unparsable(stateFile)
    /\ state' = LoadState(stateFile)
    /\ atStart' = [atStart EXCEPT !.loaded = TRUE, !.ledger = LoadState(stateFile)]
    /\ pc' = IF variant = "cli" THEN "albums" ELSE "album"
    /\ UNCHANGED << envVars, dry_run, skip_existing, retry_failed, albums, albumIdx,
                    images, imgIdx, migrated_count, skipped_count, failed_count,
                    overall_done, runs, ended, prevEnded, calls, outcome, report,
                    uploads, allSkipExisting, sideVars, auxVars >>

\* state = MigrationState(): json.load raises on the file's text.  Nothing
\* catches it in migrate; _run_migration's handler logs it and ends the run.
LoadFails ==
    /\ pc = "load"
    /\ Unparsable(stateFile)
    /\ EndRun("fatal")
    /\ UNCHANGED envVars
    /\ EndKeeps

\* CLI: albums = smugmug.get_albums(...), some album found.
GetAlbums ==
    /\ pc = "albums"
    /\ catalog' = session_get(catalog)
    /\ catalog # << >>
    /\ albums' = catalog
    /\ pc' = "root"
    /\ UNCHANGED << variant, network, stateFile, destFiles, destFolders,
                    dry_run, skip_existing, retry_failed, state, albumIdx,
                    images, imgIdx, migrated_count, skipped_count, failed_count,
                    overall_done, histVars, sideVars, auxVars >>

\* CLI: "if not albums: ... return".
NoAlbums ==
    /\ pc = "albums"
    /\ catalog = << >>
    /\ EndRun("returned")
    /\ UNCHANGED envVars
    /\ EndKeeps

\* GUI: the images of every selected album are listed before anything else.
CountImages ==
    /\ pc = "count"
    /\ catalog' = session_get(catalog)
    /\ albums' = catalog
    /\ pc' = "root"
    /\ UNCHANGED << variant, network, stateFile, destFiles, destFolders,
                    dry_run, skip_existing, retry_failed, state, albumIdx,
                    images, imgIdx, migrated_count, skipped_count, failed_count,
                    overall_done, histVars, sideVars, auxVars >>

\* root_folder_id = gdrive.get_or_create_folder(root_folder_name)
CreateRoot ==
    /\ pc = "root"
    /\ destFolders' = destFolders \cup { RootFolder }
    /\ pc' = IF variant = "cli" THEN "album" ELSE "load"
    /\ albumIdx' = 1
    /\ UNCHANGED << variant, catalog, network, stateFile, destFiles, dry_run,
                    skip_existing, retry_failed, state, albums, images, imgIdx,
                    migrated_count, skipped_count, failed_count, overall_done,
                    histVars, sideVars, auxVars >>

\* The album's folder path is created under the root; the GUI then enters the
\* image loop with the images it listed, the CLI lists them next.
AlbumFolders ==
    /\ pc = "album"
    /\ ~Stopping
    /\ lateStarts' = [lateStarts EXCEPT
                         !.albums = IF stop_flag THEN @ \cup { albumIdx } ELSE @]
    /\ destFolders' = destFolders \cup { AlbumFolder(albumIdx) }
    /\ IF variant = "cli"
       THEN /\ pc' = "images"
            /\ UNCHANGED << albumIdx, images, imgIdx >>
       ELSE LET nxt == Advance(albumIdx, albums[albumIdx], 1) IN
            /\ images' = albums[albumIdx]
            /\ pc' = nxt.pc
            /\ albumIdx' = nxt.albumIdx
            /\ imgIdx' = nxt.imgIdx
    /\ UNCHANGED << variant, catalog, network, stateFile, destFiles, dry_run,
                    skip_existing, retry_failed, state, albums, migrated_count,
                    skipped_count, failed_count, overall_done, histVars, sideVars,
                    tmp_path, tmpFiles, stop_flag, stale, resets, atEnd >>

\* CLI: images = smugmug.get_album_images(album_key)
GetAlbumImages ==
    /\ pc = "images"
    /\ catalog' = session_get(catalog)
    /\ images' = albums[albumIdx]
    /\ IF dry_run
       THEN /\ pc' = "dryreport"
            /\ UNCHANGED << albumIdx, imgIdx >>
       ELSE LET nxt == Advance(albumIdx, albums[albumIdx], 1) IN
            /\ pc' = nxt.pc
            /\ albumIdx' = nxt.albumIdx
            /\ imgIdx' = nxt.imgIdx
    /\ UNCHANGED << variant, network, stateFile, destFiles, destFolders,
                    dry_run, skip_existing, retry_failed, state, albums,
                    migrated_count, skipped_count, failed_count, overall_done,
                    histVars, sideVars, auxVars >>

\* CLI: "if dry_run:" prints one status line per image, then "continue".
DryRunReport ==
    /\ pc = "dryreport"
    /\ report' = [i \in Items |->
                    IF \E k \in 1 .. Len(images) : images[k] = i
                    THEN IF is_done(state, i) THEN "DONE" ELSE "PENDING"
                    ELSE report[i]]
    /\ LET nxt == Advance(albumIdx, << >>, 1) IN
       /\ pc' = nxt.pc
       /\ albumIdx' = nxt.albumIdx
       /\ imgIdx' = nxt.imgIdx
    /\ UNCHANGED << envVars, dry_run, skip_existing, retry_failed, state, albums,
                    images, migrated_count, skipped_count, failed_count,
                    overall_done, runs, ended, prevEnded, atStart, calls, outcome,
                    uploads, allSkipExisting, sideVars, auxVars >>

\* ------------------------------------------------------- the image loop
CurKey == images[imgIdx]

\* The steps of the loop body in which an image is being processed.
InItem == { "exists", "locate", "tempfile", "download", "upload", "savecheck",
            "saving" }

\* "continue" / the end of the loop body: on to the next image.
Continue ==
    LET nxt == Advance(albumIdx, images, imgIdx + 1) IN
    /\ pc' = nxt.pc
    /\ albumIdx' = nxt.albumIdx
    /\ imgIdx' = nxt.imgIdx

\* Faulty variant of the counting: a skipped image is not counted.
count_but_skipped(what, early) ==
    /\ migrated_count' = migrated_count + (IF what = "migrated" THEN 1 ELSE 0)
    /\ skipped_count' = skipped_count
    /\ failed_count' = failed_count + (IF what = "failed" THEN 1 ELSE 0)
    /\ overall_done' = overall_done + (IF variant = "gui" /\ early THEN 1 ELSE 0)
    /\ outcome' = [outcome EXCEPT ![images[imgIdx]] = what]

\* One of the three counters is incremented for the current image; the GUI
\* counts overall_done with it on the three early exits of the loop body.
Count(what, early) ==
    /\ migrated_count' = migrated_count + (IF what = "migrated" THEN 1 ELSE 0)
    /\ skipped_count' = skipped_count + (IF what = "skipped" THEN 1 ELSE 0)
    /\ failed_count' = failed_count + (IF what = "failed" THEN 1 ELSE 0)
    /\ overall_done' = overall_done + (IF variant = "gui" /\ early THEN 1 ELSE 0)
    /\ outcome' = [outcome EXCEPT ![CurKey] = what]

Called(kinds) == calls' = [calls EXCEPT ![CurKey] = @ \cup kinds]

\* The loop body is entered for the current image past the stop test.
ItemBegun ==
    lateStarts' = [lateStarts EXCEPT
                      !.items = IF stop_flag THEN @ \cup { CurKey } ELSE @]

\* mark_done / mark_failed gave the current image the ledger entry it has in st.
Record(st) ==
    /\ state' = st
    /\ stale' = stale \ { CurKey }

\* GUI: the Stop button, enabled while a migration runs: stop_flag.set().
StopPress ==
    /\ variant = "gui"
    /\ pc # "idle"
    /\ ~stop_flag
    /\ stop_flag' = TRUE
    /\ UNCHANGED << envVars, runVars, histVars, sideVars, tmp_path, tmpFiles,
                    lateStarts, stale, resets, atEnd >>

\* GUI: the flag is found set at the top of the album loop or of the image
\* loop; both loops are left and the final save follows.
StopBreak ==
    /\ pc \in { "album", "item" }
    /\ Stopping
    /\ pc' = "finalsave"
    /\ UNCHANGED << envVars, dry_run, skip_existing, retry_failed, state, albums,
                    albumIdx, images, imgIdx, migrated_count, skipped_count,
                    failed_count, overall_done, histVars, sideVars, auxVars >>

\* get_or_create_folder raises (the Drive request fails) for the root folder
\* or for an album folder.  Nothing catches it in migrate; _run_migration's
\* handler logs it and ends the run.
FolderFails ==
    /\ pc \in { "root", "album" }
    /\ pc = "album" => ~Stopping
    /\ network = "raising"
    /\ EndRun("aborted")
    /\ UNCHANGED envVars
    /\ EndKeeps

\* "Skip if already migrated"
SkipDoneItem ==
    /\ pc = "item"
    /\ ~Stopping
    /\ SkipMigrated(state, CurKey, retry_failed)
    /\ ItemBegun
    /\ Count("skipped", TRUE)
    /\ Continue
    /\ UNCHANGED << envVars, dry_run, skip_existing, retry_failed, state, albums,
                    images, runs, ended, prevEnded, atStart, calls, report, uploads,
                    allSkipExisting, sideVars,
                    tmp_path, tmpFiles, stop_flag, stale, resets, atEnd >>

\* "Skip if retry_failed is False and this was a failed item"
SkipFailedItem ==
    /\ pc = "item"
    /\ ~Stopping
    /\ ~SkipMigrated(state, CurKey, retry_failed)
    /\ SkipFailed(state, CurKey, retry_failed)
    /\ ItemBegun
    /\ Count("skipped", TRUE)
    /\ Continue
    /\ UNCHANGED << envVars, dry_run, skip_existing, retry_failed, state, albums,
                    images, runs, ended, prevEnded, atStart, calls, report, uploads,
                    allSkipExisting, sideVars,
                    tmp_path, tmpFiles, stop_flag, stale, resets, atEnd >>

\* Neither ledger test applies: with skip_existing the destination is asked
\* next, without it the image is to be transferred.
BeginTransfer ==
    /\ pc = "item"
    /\ ~Stopping
    /\ ~SkipMigrated(state, CurKey, retry_failed)
    /\ ~SkipFailed(state, CurKey, retry_failed)
    /\ ItemBegun
    /\ pc' = IF skip_existing THEN "exists" ELSE "locate"
    /\ UNCHANGED << envVars, dry_run, skip_existing, retry_failed, state, albums,
                    albumIdx, images, imgIdx, migrated_count, skipped_count,
                    failed_count, overall_done, histVars, sideVars,
                    tmp_path, tmpFiles, stop_flag, stale, resets, atEnd >>

\* "if skip_existing and gdrive.file_exists(...)": the file is there, the image
\* is marked done and counted as skipped.
SkipExistingItem ==
    /\ pc = "exists"
    /\ file_exists(destFiles, CurKey)
    /\ Called({ "exists" })
    /\ Record(mark_done(state, CurKey))
    /\ Count("skipped", TRUE)
    /\ Continue
    /\ UNCHANGED << envVars, dry_run, skip_existing, retry_failed, albums, images,
                    runs, ended, prevEnded, atStart, report, uploads,
                    allSkipExisting, sideVars, tmp_path, tmpFiles, stop_flag,
                    lateStarts, resets, atEnd >>

\* gdrive.file_exists(...) found no such file: the image is to be transferred.
ExistsNotFound ==
    /\ pc = "exists"
    /\ ~file_exists(destFiles, CurKey)
    /\ Called({ "exists" })
    /\ pc' = "locate"
    /\ UNCHANGED << envVars, dry_run, skip_existing, retry_failed, state, albums,
                    albumIdx, images, imgIdx, migrated_count, skipped_count,
                    failed_count, overall_done, runs, ended, prevEnded, atStart,
                    outcome, report, uploads, allSkipExisting, sideVars, auxVars >>

\* gdrive.file_exists(...) raises (the Drive request fails).  The call is not
\* inside the loop body's try: nothing catches it in migrate, _run_migration's
\* handler logs it and ends the run.
ExistsQueryFails ==
    /\ pc = "exists"
    /\ network = "raising"
    /\ Called({ "exists" })
    /\ EndRun("aborted")
    /\ UNCHANGED << envVars, runs, prevEnded, atStart, outcome, report, uploads,
                    allSkipExisting, sideVars, tmpFiles, stop_flag, lateStarts,
                    stale, resets >>

\* get_image_download_url returned a URL; the GUI then sets tmp_path = None.
LocatorFound ==
    /\ pc = "locate"
    /\ catalog' = session_get(catalog)
    /\ network # "nourl"
    /\ Called({ "locator" })
    /\ tmp_path' = IF variant = "gui" THEN NoPath ELSE tmp_path
    /\ pc' = "tempfile"
    /\ UNCHANGED << variant, network, stateFile, destFiles, destFolders,
                    dry_run, skip_existing, retry_failed, state, albums,
                    albumIdx, images, imgIdx, migrated_count, skipped_count,
                    failed_count, overall_done, runs, ended, prevEnded, atStart,
                    outcome, report, uploads, allSkipExisting, sideVars, tmpFiles,
                    stop_flag, lateStarts, stale, resets, atEnd >>

\* "if not download_url:" mark_failed, failed += 1, continue.
LocatorMissing ==
    /\ pc = "locate"
    /\ catalog' = session_get(catalog)
    /\ network = "nourl"
    /\ Called({ "locator" })
    /\ Record(mark_failed(state, CurKey, "nourl"))
    /\ Count("failed", TRUE)
    /\ Continue
    /\ UNCHANGED << variant, network, stateFile, destFiles, destFolders,
                    dry_run, skip_existing, retry_failed, albums, images,
                    runs, ended, prevEnded, atStart, report, uploads,
                    allSkipExisting, sideVars, tmp_path, tmpFiles, stop_flag,
                    lateStarts, resets, atEnd >>

\* tempfile.NamedTemporaryFile(delete=False) made the staging file.
TempFileOk ==
    /\ pc = "tempfile"
    /\ Called({ "tempfile" })
    /\ tmp_path' = StagingFile(CurKey)
    /\ tmpFiles' = tmpFiles \cup { CurKey }
    /\ pc' = "download"
    /\ UNCHANGED << envVars, dry_run, skip_existing, retry_failed, state, albums,
                    albumIdx, images, imgIdx, migrated_count, skipped_count,
                    failed_count, overall_done, runs, ended, prevEnded, atStart,
                    outcome, report, uploads, allSkipExisting, sideVars,
                    stop_flag, lateStarts, stale, resets, atEnd >>

\* tempfile.NamedTemporaryFile raises (no space, no temp directory): "except"
\* marks the image failed, then "finally" reads tmp_path.  In migrate tmp_path
\* is still unbound when no staging file was made earlier in the call, and the
\* read raises out of the loop; otherwise it names no existing file.
TempFileFails ==
    /\ pc = "tempfile"
    /\ network = "raising"
    /\ Called({ "tempfile" })
    /\ stale' = stale \ { CurKey }
    /\ IF tmp_path = Unbound
       THEN /\ outcome' = [outcome EXCEPT ![CurKey] = "failed"]
            /\ EndRunWith("aborted", mark_failed(state, CurKey, "tempfile"),
                          failed_count + 1, FALSE)
       ELSE /\ state' = mark_failed(state, CurKey, "tempfile")
            /\ Count("failed", FALSE)
            /\ pc' = "savecheck"
            /\ UNCHANGED << dry_run, skip_existing, retry_failed, albums, albumIdx,
                            images, imgIdx, ended, tmp_path, atEnd >>
    /\ UNCHANGED << envVars, runs, prevEnded, atStart, report, uploads,
                    allSkipExisting, sideVars, tmpFiles, stop_flag, lateStarts,
                    resets >>

\* download_image returned True.
DownloadOk ==
    /\ pc = "download"
    /\ catalog' = session_get(catalog)
    /\ Called({ "download" })
    /\ pc' = "upload"
    /\ UNCHANGED << variant, network, stateFile, destFiles, destFolders,
                    dry_run, skip_existing, retry_failed, state, albums,
                    albumIdx, images, imgIdx, migrated_count, skipped_count,
                    failed_count, overall_done, runs, ended, prevEnded, atStart,
                    outcome, report, uploads, allSkipExisting, sideVars, auxVars >>

\* download_image returned False: the raised exception is caught, mark_failed;
\* "finally" removes the staging file.
DownloadFails ==
    /\ pc = "download"
    /\ catalog' = session_get(catalog)
    /\ network = "flaky"
    /\ Called({ "download" })
    /\ Record(mark_failed(state, CurKey, "download"))
    /\ Count("failed", FALSE)
    /\ tmpFiles' = tmpFiles \ { CurKey }
    /\ pc' = "savecheck"
    /\ UNCHANGED << variant, network, stateFile, destFiles, destFolders,
                    dry_run, skip_existing, retry_failed, albums, albumIdx,
                    images, imgIdx, runs, ended, prevEnded, atStart, report,
                    uploads, allSkipExisting, sideVars, tmp_path, stop_flag,
                    lateStarts, resets, atEnd >>

\* upload_file created the file; mark_done, migrated += 1; "finally" removes
\* the staging file.
UploadOk ==
    /\ pc = "upload"
    /\ Called({ "upload" })
    /\ destFiles' = [destFiles EXCEPT ![CurKey] = @ + 1]
    /\ uploads' = [uploads EXCEPT ![CurKey] = @ + 1]
    /\ Record(mark_done(state, CurKey))
    /\ Count("migrated", FALSE)
    /\ tmpFiles' = tmpFiles \ { CurKey }
    /\ pc' = "savecheck"
    /\ UNCHANGED << variant, catalog, network, stateFile, destFolders, dry_run,
                    skip_existing, retry_failed, albums, albumIdx, images, imgIdx,
                    runs, ended, prevEnded, atStart, report, allSkipExisting,
                    sideVars, tmp_path, stop_flag, lateStarts, resets, atEnd >>

\* upload_file raised: nothing is created, the exception is caught, mark_failed;
\* "finally" removes the staging file.
UploadFails ==
    /\ pc = "upload"
    /\ network = "flaky"
    /\ Called({ "upload" })
    /\ Record(mark_failed(state, CurKey, "upload"))
    /\ Count("failed", FALSE)
    /\ tmpFiles' = tmpFiles \ { CurKey }
    /\ pc' = "savecheck"
    /\ UNCHANGED << envVars, dry_run, skip_existing, retry_failed, albums, albumIdx,
                    images, imgIdx, runs, ended, prevEnded, atStart, report,
                    uploads, allSkipExisting, sideVars, tmp_path, stop_flag,
                    lateStarts, resets, atEnd >>

\* The end of the loop body after a transfer attempt: the GUI counts the image
\* in overall_done, then "Save state periodically (every 10 files)".
\* When the save is due, state.save() opens the file for writing.
SaveCheck ==
    /\ pc = "savecheck"
    /\ overall_done' = overall_done + (IF variant = "gui" THEN 1 ELSE 0)
    /\ IF SaveDue(variant, migrated_count, failed_count, overall_done')
       THEN /\ stateFile' = OpenForWrite(stateFile)
            /\ pc' = "saving"
            /\ UNCHANGED << albumIdx, imgIdx >>
       ELSE /\ Continue
            /\ UNCHANGED stateFile
    /\ UNCHANGED << variant, catalog, network, destFiles, destFolders, dry_run,
                    skip_existing, retry_failed, state, albums, images,
                    migrated_count, skipped_count, failed_count, histVars,
                    sideVars, auxVars >>

\* The periodic state.save() writes the text and closes the file.
SaveWrite ==
    /\ pc = "saving"
    /\ stateFile' = SaveState(state)
    /\ Continue
    /\ UNCHANGED << variant, catalog, network, destFiles, destFolders, dry_run,
                    skip_existing, retry_failed, state, albums, images,
                    migrated_count, skipped_count, failed_count, overall_done,
                    histVars, sideVars, auxVars >>

\* "Final state save": state.save() opens the file for writing.
FinalSave ==
    /\ pc = "finalsave"
    /\ stateFile' = OpenForWrite(stateFile)
    /\ pc' = "finalwrite"
    /\ UNCHANGED << variant, catalog, network, destFiles, destFolders, dry_run,
                    skip_existing, retry_failed, state, albums, albumIdx, images,
                    imgIdx, migrated_count, skipped_count, failed_count,
                    overall_done, histVars, sideVars, auxVars >>

\* The final state.save() writes the text and closes the file; the summary is
\* printed and the run ends.
FinalWrite ==
    /\ pc = "finalwrite"
    /\ stateFile' = SaveState(state)
    /\ EndRunWith(IF variant = "gui" /\ stop_flag THEN "stopped" ELSE "completed",
                  state, failed_count, TRUE)
    /\ UNCHANGED << variant, catalog, network, destFiles, destFolders >>
    /\ EndKeeps

\* The process dies between two steps.
Crash ==
    /\ pc # "idle"
    /\ atEnd' = NoEnd
    /\ EndLocals("crashed")
    /\ UNCHANGED envVars
    /\ EndKeeps

\* GUI: the Reset Progress button (always enabled), confirmed in the dialog:
\* MigrationState().reset() loads the file into a new object, clears that
\* object's collections and unlinks the file.  A running migration thread keeps
\* its own MigrationState.  With an unparsable file the constructor raises and
\* the callback ends before reset().
ResetPress ==
    /\ variant = "gui"
    /\ resets < MaxResets
    /\ ~Unparsable(stateFile)
    /\ stateFile' = AbsentFile
    /\ stale' = { i \in Items :
                    \/ is_done(state, i) \/ in_failed(state, i)
                    \/ is_done(stateFile, i) \/ in_failed(stateFile, i) }
    /\ resets' = resets + 1
    /\ UNCHANGED << variant, catalog, network, destFiles, destFolders, runVars,
                    histVars, sideVars, tmp_path, tmpFiles, stop_flag, lateStarts,
                    atEnd >>

\* The steps both variants take.
EngineSteps ==
    \/ StartRun
    \/ Load
    \/ LoadFails
    \/ CreateRoot
    \/ AlbumFolders
    \/ FolderFails
    \/ SkipDoneItem
    \/ SkipFailedItem
    \/ BeginTransfer
    \/ SkipExistingItem
    \/ ExistsNotFound
    \/ ExistsQueryFails
    \/ LocatorFound
    \/ LocatorMissing
    \/ TempFileOk
    \/ TempFileFails
    \/ DownloadOk
    \/ DownloadFails
    \/ UploadOk
    \/ UploadFails
    \/ SaveCheck
    \/ SaveWrite
    \/ FinalSave
    \/ FinalWrite
    \/ Crash

\* The steps of migrate alone.
CliSteps ==
    \/ CredentialsMissing
    \/ SourceAuthenticate
    \/ DestAuthenticate
    \/ DestCredentialsMissing
    \/ GetAlbums
    \/ NoAlbums
    \/ GetAlbumImages
    \/ DryRunReport

\* The steps of _run_migration alone, and the Stop button.
GuiSteps ==
    \/ CountImages
    \/ StopPress
    \/ StopBreak

Next == EngineSteps \/ CliSteps \/ GuiSteps

Spec == Init /\ [][Next]_vars

\* The same engine, started with the ledger file absent or unparsable.
SpecLoad == InitLoad /\ [][Next]_vars

\* The GUI with its Reset Progress button, on a fresh installation.
InitReset ==
    /\ variant = "gui"
    /\ \E sc \in Scenarios : sc[1] # EmptyCatalog /\ catalog = sc[1] /\ network = sc[2]
    /\ credentials = AllCredentials
    /\ IdleEngine
    /\ IdlePage
    /\ IdleApp
    /\ IdleLoc
    /\ IdlePath
    /\ IdleTrip
    /\ IdleAgree
    /\ IdleFolders

NextReset == EngineSteps \/ GuiSteps \/ ResetPress

SpecReset == InitReset /\ [][NextReset]_vars

\* ============================================================ pagination
\* get_albums / get_album_images (the same loop in both files, for both
\* listings): "start" is 1-based, every request asks for PageCount items.
Min(a, b) == IF a <= b THEN a ELSE b

\* The listing the provider holds: item k at position k.
Listing(n) == Range(1, n)

\* What a provider holding n items and serving at most p items per page
\* returns for a request (start, count).
ProviderPage(n, p, start, count) ==
    SubSeq(Listing(n), start, Min(start + Min(count, p) - 1, n))

\* A provider that never returns an empty page: it starts again from the
\* first item when the request goes past the last one.
EndlessPage(n, p, start, count) ==
    [k \in 1 .. Min(count, p) |-> ((start + k - 2) % n) + 1]

\* The page the provider returns for the request the loop makes next.
Served ==
    IF pgProvider = "paged"
    THEN ProviderPage(pgN, pgP, pgStart, PageCount)
    ELSE EndlessPage(pgN, pgP, pgStart, PageCount)

\* Faulty variant of the stop test: ">=" for ">".
stops_one_early(start, len, total) == start + len >= total

\* "if params["start"] + len(page) > pages.get("Total", 0): break"
StopAfter(start, len, total) == start + len > total

\* Faulty variant of the step: start does not advance.
next_start_stays(start, len) == start

\* Faulty variant of the step: start advances by the requested count.
next_start_by_count(start, len) == start + PageCount

\* "params["start"] += len(page)"
NextStart(start, len) == start + len

InitPage ==
    /\ variant \in { "cli", "gui" }
    /\ catalog = EmptyCatalog
    /\ network = "ok"
    /\ credentials = AllCredentials
    /\ IdleEngine
    /\ pgPc = "loop"
    /\ pgCall \in { "get_albums", "get_album_images" }
    /\ pgN \in 0 .. MaxN
    /\ pgP \in 1 .. MaxP
    /\ pgTotal \in 0 .. MaxN
    /\ pgStart = PageStart
    /\ pgAcc = << >>
    /\ pgFailed = FALSE
    /\ pgRequests = 0
    /\ pgProvider = "paged"
    /\ IdleFolders
    /\ IdleApp
    /\ IdleLoc
    /\ IdlePath
    /\ IdleTrip
    /\ IdleAgree

\* "if not data or "Response" not in data: break": _get returned None.
PageRequestFails ==
    /\ pgPc = "loop"
    /\ pgPc' = "done"
    /\ pgFailed' = TRUE
    /\ pgRequests' = pgRequests + 1
    /\ UNCHANGED << envVars, runVars, histVars, auxVars, folderVars, credVars, appVars, locVars, pathVars, tripVars, agreeVars,
                    pgProvider, pgCall, pgN, pgP, pgTotal, pgStart,
                    pgAcc >>

\* "if not page: break"
PageEmpty ==
    /\ pgPc = "loop"
    /\ Served = << >>
    /\ pgPc' = "done"
    /\ pgRequests' = pgRequests + 1
    /\ UNCHANGED << envVars, runVars, histVars, auxVars, folderVars, credVars, appVars, locVars, pathVars, tripVars, agreeVars,
                    pgProvider, pgCall, pgN, pgP, pgTotal, pgStart,
                    pgAcc, pgFailed >>

\* A non-empty page is appended and the total says there is no more.
PageLast ==
    LET page == Served IN
    /\ pgPc = "loop"
    /\ page # << >>
    /\ StopAfter(pgStart, Len(page), pgTotal)
    /\ pgAcc' = pgAcc \o page
    /\ pgPc' = "done"
    /\ pgRequests' = pgRequests + 1
    /\ UNCHANGED << envVars, runVars, histVars, auxVars, folderVars, credVars, appVars, locVars, pathVars, tripVars, agreeVars,
                    pgProvider, pgCall, pgN, pgP, pgTotal, pgStart,
                    pgFailed >>

\* A non-empty page is appended and the loop goes on from the next start.
PageMore ==
    LET page == Served IN
    /\ pgPc = "loop"
    /\ page # << >>
    /\ ~StopAfter(pgStart, Len(page), pgTotal)
    /\ pgAcc' = pgAcc \o page
    /\ pgStart' = NextStart(pgStart, Len(page))
    /\ pgRequests' = pgRequests + 1
    /\ UNCHANGED << envVars, runVars, histVars, auxVars, folderVars, credVars, appVars, locVars, pathVars, tripVars, agreeVars,
                    pgProvider, pgCall, pgN, pgP, pgTotal, pgPc,
                    pgFailed >>

NextPage ==
    \/ PageRequestFails
    \/ PageEmpty
    \/ PageLast
    \/ PageMore

SpecPage == InitPage /\ [][NextPage]_vars

\* The same loop against either kind of provider, the endless one holding at
\* least one item.
InitPageAny ==
    /\ variant \in { "cli", "gui" }
    /\ catalog = EmptyCatalog
    /\ network = "ok"
    /\ credentials = AllCredentials
    /\ IdleEngine
    /\ pgPc = "loop"
    /\ pgCall \in { "get_albums", "get_album_images" }
    /\ pgN \in 0 .. MaxN
    /\ pgP \in 1 .. MaxP
    /\ pgTotal \in 0 .. MaxN
    /\ pgStart = PageStart
    /\ pgAcc = << >>
    /\ pgFailed = FALSE
    /\ pgRequests = 0
    /\ pgProvider \in { "paged", "endless" }
    /\ pgProvider = "endless" => pgN >= 1
    /\ IdleFolders
    /\ IdleApp
    /\ IdleLoc
    /\ IdlePath
    /\ IdleTrip
    /\ IdleAgree

SpecPageAny == InitPageAny /\ [][NextPage]_vars

\* The loop is run on: each request is made and answered.
SpecPageFair == InitPageAny /\ [][NextPage]_vars /\ WF_vars(NextPage)

\* ====================================================== folder resolution
\* migrate / _run_migration resolve the root folder and then, album by album,
\* one folder per path segment with GoogleDriveClient.get_or_create_folder.
\* A run is one call of migrate with a new GoogleDriveClient (an empty cache).
FolderRuns == 1 .. MaxFolderRuns

\* parent_id = None: no parent is named in the query or in the create request,
\* and Drive puts a folder created without parents into My Drive.
MyDrive == 0

\* (root folder name, path_parts of the albums): two albums sharing the prefix
\* "Family", under a root folder named unlike any segment or like the first one.
FolderScenarios ==
    { [rootName |-> r,
       paths |-> << << "Family", "Vacation", "2024" >>, << "Family", "Xmas" >> >>]
      : r \in { "SmugMug Migration", "Family" } }

IdleFolderRun ==
    [pc |-> "idle", phase |-> "root", cache |-> {}, root |-> MyDrive,
     album |-> 1, seg |-> 1, parent |-> MyDrive, made |-> {}, dest |-> << >>,
     crashed |-> FALSE, log |-> << >>, overlapped |-> FALSE]

\* The arguments of the pending get_or_create_folder call of a run.
WantName(rr) ==
    IF rr.phase = "root" THEN fScen.rootName ELSE fScen.paths[rr.album][rr.seg]
WantParent(rr) == IF rr.phase = "root" THEN MyDrive ELSE rr.parent

\* Faulty variant of the cache key: the name alone.
cache_key_by_name(name, parent) == << MyDrive, name >>

\* cache_key = f"{parent_id or 'root'}/{name}".  A Drive id holds no "/" and
\* is not "root", so the string splits in one way into its two parts: the key
\* is the pair, with MyDrive standing for 'root'.
cache_key(name, parent) == << parent, name >>

\* "if cache_key in self._folder_cache": the ids cached under the key.
Cached(rr) ==
    { c[2] : c \in { d \in rr.cache : d[1] = cache_key(WantName(rr), WantParent(rr)) } }

\* History: the call's step (op: "hit", "query", "create") and the id it gave
\* (MyDrive: the query found nothing).
Logged(rr, op, id) ==
    Append(rr.log, [op |-> op, parent |-> WantParent(rr), name |-> WantName(rr),
                    id |-> id])

\* Faulty variant of the query: it never finds a folder.
query_finds_nothing(drive, name, parent) == {}

\* The files().list query: non-trashed folders of that name, and "'parent_id'
\* in parents" only "if parent_id".
QueryFolders(drive, name, parent) ==
    { f.id : f \in { g \in drive :
                        g.name = name /\ (parent = MyDrive \/ g.parent = parent) } }

\* The run goes on with the folder id the call returned, which is cached.
FolderResult(rr, id) ==
    LET c == rr.cache \cup { << cache_key(WantName(rr), WantParent(rr)), id >> }
        paths == fScen.paths
    IN  IF rr.phase = "root"
        THEN [rr EXCEPT !.cache = c, !.root = id, !.parent = id, !.phase = "seg",
                        !.pc = IF paths = << >> THEN "done" ELSE "call"]
        ELSE IF rr.seg < Len(paths[rr.album])
        THEN [rr EXCEPT !.cache = c, !.parent = id, !.seg = @ + 1, !.pc = "call"]
        ELSE IF rr.album < Len(paths)
        THEN [rr EXCEPT !.cache = c, !.parent = rr.root, !.seg = 1,
                        !.album = @ + 1, !.dest = Append(@, id), !.pc = "call"]
        ELSE [rr EXCEPT !.cache = c, !.parent = id, !.dest = Append(@, id),
                        !.pc = "done"]

EngineIdle ==
    UNCHANGED << envVars, runVars, histVars, pageVars, auxVars, credVars, appVars,
                 locVars, pathVars, tripVars, agreeVars >>

InitFolder ==
    /\ variant \in { "cli", "gui" }
    /\ catalog = EmptyCatalog
    /\ network = "ok"
    /\ credentials = AllCredentials
    /\ IdleEngine
    /\ IdlePage
    /\ IdleApp
    /\ IdleLoc
    /\ IdlePath
    /\ IdleTrip
    /\ IdleAgree
    /\ fScen \in FolderScenarios
    /\ fDrive = {}
    /\ fRun = [r \in FolderRuns |-> IdleFolderRun]

\* A run starts when the runs before it are over: gdrive = GoogleDriveClient().
FolderRunStart(r) ==
    /\ fRun[r].pc = "idle"
    /\ \A q \in FolderRuns : q < r => fRun[q].pc = "done"
    /\ fRun' = [fRun EXCEPT ![r].pc = "call"]
    /\ UNCHANGED << fScen, fDrive >>
    /\ EngineIdle

\* The key is in the cache: the cached id is returned, no request is made.
FolderCached(r) ==
    /\ fRun[r].pc = "call"
    /\ \E id \in Cached(fRun[r]) :
          fRun' = [fRun EXCEPT ![r] = [FolderResult(@, id) EXCEPT
                                          !.log = Logged(fRun[r], "hit", id)]]
    /\ UNCHANGED << fScen, fDrive >>
    /\ EngineIdle

\* The query returns folders: files[0], whichever the destination lists first.
FolderFound(r) ==
    /\ fRun[r].pc = "call"
    /\ Cached(fRun[r]) = {}
    /\ \E id \in QueryFolders(fDrive, WantName(fRun[r]), WantParent(fRun[r])) :
          fRun' = [fRun EXCEPT ![r] = [FolderResult(@, id) EXCEPT
                                          !.log = Logged(fRun[r], "query", id)]]
    /\ UNCHANGED << fScen, fDrive >>
    /\ EngineIdle

\* The query returns no folder: the create request is next.
FolderMissing(r) ==
    /\ fRun[r].pc = "call"
    /\ Cached(fRun[r]) = {}
    /\ QueryFolders(fDrive, WantName(fRun[r]), WantParent(fRun[r])) = {}
    /\ fRun' = [fRun EXCEPT ![r].pc = "create",
                            ![r].log = Logged(fRun[r], "query", MyDrive)]
    /\ UNCHANGED << fScen, fDrive >>
    /\ EngineIdle

\* files().create makes the folder under the parent and returns its new id.
FolderCreate(r) ==
    LET id == Cardinality(fDrive) + 1 IN
    /\ fRun[r].pc = "create"
    /\ fDrive' = fDrive \cup { [id |-> id, name |-> WantName(fRun[r]),
                                parent |-> WantParent(fRun[r])] }
    /\ fRun' = [fRun EXCEPT ![r] = [FolderResult(@, id) EXCEPT
                                      !.made = @ \cup { id },
                                      !.log = Logged(fRun[r], "create", id)]]
    /\ UNCHANGED fScen
    /\ EngineIdle

\* The process dies between two requests.
FolderRunCrash(r) ==
    /\ fRun[r].pc \in { "call", "create" }
    /\ fRun' = [fRun EXCEPT ![r].pc = "done", ![r].crashed = TRUE]
    /\ UNCHANGED << fScen, fDrive >>
    /\ EngineIdle

NextFolder ==
    \E r \in FolderRuns :
        \/ FolderRunStart(r)
        \/ FolderCached(r)
        \/ FolderFound(r)
        \/ FolderMissing(r)
        \/ FolderCreate(r)
        \/ FolderRunCrash(r)

SpecFolder == InitFolder /\ [][NextFolder]_vars

\* Runs of two processes against one destination: a run starts whatever the
\* other run is doing, each with its own GoogleDriveClient.  History: a run
\* that is under way while the other one is, has overlapped.
Racers == { 1, 2 }
Underway(rr) == rr.pc \notin { "idle", "done" }

FolderRunStartAny(r) ==
    /\ fRun[r].pc = "idle"
    /\ \A q \in Racers : q < r => fRun[q].pc # "idle"
    /\ fRun' = [q \in FolderRuns |->
                  IF q = r
                  THEN [fRun[r] EXCEPT
                           !.pc = "call",
                           !.overlapped = \E o \in FolderRuns : Underway(fRun[o])]
                  ELSE IF Underway(fRun[q])
                  THEN [fRun[q] EXCEPT !.overlapped = TRUE]
                  ELSE fRun[q]]
    /\ UNCHANGED << fScen, fDrive >>
    /\ EngineIdle

NextFolderRace ==
    \E r \in Racers :
        \/ FolderRunStartAny(r)
        \/ FolderCached(r)
        \/ FolderFound(r)
        \/ FolderMissing(r)
        \/ FolderCreate(r)

SpecFolderRace == InitFolder /\ [][NextFolderRace]_vars

\* ================================================ the engine's listings
\* The engine with its listing calls made page by page: get_albums and
\* get_album_images run the pagination loop above, each request of which may
\* fail, and the engine goes on with what the call returned.  The provider
\* serves one item per page and reports the right total; locators, downloads
\* and uploads succeed.
PagedCatalog == << << 1, 2 >>, << >> >>
ListingPageSize == 1

\* Faulty variant of the listing's result: the whole listing, whatever the
\* requests returned.
whole_listing(full, acc) == full

\* The entries of the full listing at the positions the loop accumulated.
Returned(full, acc) == [k \in 1 .. Len(acc) |-> full[acc[k]]]

InitListing ==
    /\ variant \in { "cli", "gui" }
    /\ catalog = PagedCatalog
    /\ network = "lossy"
    /\ credentials = AllCredentials
    /\ IdleEngine
    /\ IdlePage
    /\ IdleApp
    /\ IdleLoc
    /\ IdlePath
    /\ IdleTrip
    /\ IdleAgree
    /\ IdleFolders

\* params = {"count": 100, "start": 1}; the loop is entered.
PageLoopStart(call, n) ==
    /\ pgPc' = "loop"
    /\ pgCall' = call
    /\ pgN' = n
    /\ pgP' = ListingPageSize
    /\ pgTotal' = n
    /\ pgStart' = PageStart
    /\ pgAcc' = << >>
    /\ pgFailed' = FALSE
    /\ pgRequests' = 0

\* The listing call has returned: its locals are gone.
PageLoopOff ==
    /\ pgPc' = "off"
    /\ pgCall' = "none"
    /\ pgN' = 0
    /\ pgP' = 1
    /\ pgTotal' = 0
    /\ pgStart' = PageStart
    /\ pgAcc' = << >>
    /\ pgFailed' = FALSE
    /\ pgRequests' = 0

\* What a listing call leaves alone.
ListingKeeps ==
    UNCHANGED << envVars, dry_run, skip_existing, retry_failed, state,
                 migrated_count, skipped_count, failed_count, overall_done, runs,
                 ended, prevEnded, calls, outcome, report, uploads,
                 allSkipExisting, auxVars, folderVars, credVars, appVars, locVars, pathVars, tripVars, agreeVars,
                 pgProvider >>

\* CLI: albums = smugmug.get_albums(...) is called.
ListAlbumsBegin ==
    /\ pc = "albums"
    /\ pc' = "listing"
    /\ PageLoopStart("get_albums", Len(catalog))
    /\ UNCHANGED << albums, albumIdx, images, imgIdx, atStart >>
    /\ ListingKeeps

\* CLI: get_albums returned some album.
ListAlbumsEnd ==
    /\ pc = "listing"
    /\ pgPc = "done"
    /\ pgCall = "get_albums"
    /\ Returned(catalog, pgAcc) # << >>
    /\ albums' = Returned(catalog, pgAcc)
    /\ pc' = "root"
    /\ PageLoopOff
    /\ UNCHANGED << albumIdx, images, imgIdx, atStart >>
    /\ ListingKeeps

\* CLI: get_albums returned no album: "if not albums: ... return".
ListAlbumsNone ==
    /\ pc = "listing"
    /\ pgPc = "done"
    /\ pgCall = "get_albums"
    /\ Returned(catalog, pgAcc) = << >>
    /\ EndRun("returned")
    /\ PageLoopOff
    /\ UNCHANGED << envVars, runs, prevEnded, atStart, calls, outcome, report,
                    uploads, allSkipExisting, tmpFiles, stop_flag, lateStarts,
                    stale, resets, folderVars, credVars, appVars, locVars, pathVars, tripVars, agreeVars, pgProvider >>

\* The album whose images are listed: the CLI lists them album by album in the
\* album loop, the GUI lists those of every selected album before the loop.
ListedAlbum == IF variant = "cli" THEN albums[albumIdx] ELSE catalog[albumIdx]

\* smugmug.get_album_images(album_key) is called.
ListImagesBegin ==
    /\ pc = IF variant = "cli" THEN "images" ELSE "count"
    /\ pc' = "listing"
    /\ PageLoopStart("get_album_images", Len(ListedAlbum))
    /\ UNCHANGED << albums, albumIdx, images, imgIdx, atStart >>
    /\ ListingKeeps

\* get_album_images returned.  CLI: the dry-run report or the image loop is
\* next; GUI: the images are kept with the album and the next album's images
\* are listed, the root folder following the last.
ListImagesEnd ==
    LET got == Returned(ListedAlbum, pgAcc) IN
    /\ pc = "listing"
    /\ pgPc = "done"
    /\ pgCall = "get_album_images"
    /\ atStart' = [atStart EXCEPT
                      !.listed = @ \cup { ListedAlbum[pgAcc[k]] : k \in 1 .. Len(pgAcc) }]
    /\ IF variant = "cli"
       THEN /\ images' = got
            /\ UNCHANGED albums
            /\ IF dry_run
               THEN /\ pc' = "dryreport"
                    /\ UNCHANGED << albumIdx, imgIdx >>
               ELSE LET nxt == Advance(albumIdx, got, 1) IN
                    /\ pc' = nxt.pc
                    /\ albumIdx' = nxt.albumIdx
                    /\ imgIdx' = nxt.imgIdx
       ELSE /\ albums' = Append(albums, got)
            /\ UNCHANGED << images, imgIdx >>
            /\ IF albumIdx < Len(catalog)
               THEN pc' = "count" /\ albumIdx' = albumIdx + 1
               ELSE pc' = "root" /\ albumIdx' = 1
    /\ PageLoopOff
    /\ ListingKeeps

NextListing ==
    \/ StartRun
    \/ SourceAuthenticate
    \/ DestAuthenticate
    \/ Load
    \/ ListAlbumsBegin
    \/ ListAlbumsEnd
    \/ ListAlbumsNone
    \/ ListImagesBegin
    \/ ListImagesEnd
    \/ NextPage
    \/ CreateRoot
    \/ AlbumFolders
    \/ DryRunReport
    \/ SkipDoneItem
    \/ BeginTransfer
    \/ SkipExistingItem
    \/ ExistsNotFound
    \/ LocatorFound
    \/ TempFileOk
    \/ DownloadOk
    \/ UploadOk
    \/ SaveCheck
    \/ FinalSave
    \/ FinalWrite

SpecListing == InitListing /\ [][NextListing]_vars

\* ================================================= the download locator
\* SmugMugClient.get_image_download_url and the engine's test of its result,
\* for one image.  What the provider answers to each of the two requests:
\*   "failed"      _get returned None (the request raised or had an error status)
\*   "noresponse"  the JSON has no "Response"
\*   "nokey"       the Response has no LargestImage / ImageDownload object
\*   "nourl"       the object has no "Url"
\*   "empty"       the object's "Url" is the empty string
\*   "url"         the object's "Url" is a URL
Answers == { "failed", "noresponse", "nokey", "nourl", "empty", "url" }

EmptyUrl == ""
LargestUrl == "largest-url"
ArchiveUrl == "archive-url"

\* "if data and "Response" in data"
HasResponse(answer) == answer \notin { "failed", "noresponse" }

\* data["Response"].get(key, {}).get("Url") for an answer whose URL is u.
UrlIn(answer, u) ==
    IF answer = "url" THEN u ELSE IF answer = "empty" THEN EmptyUrl ELSE NoUrl

\* Faulty variant of the truth test: only None counts as nothing.
is_not_none(u) == u # NoUrl

\* Python's truth value of an Optional[str]: None and "" are false.
Truthy(u) == u \notin { NoUrl, EmptyUrl }

\* The reason the engine records: "Could not get download URL" / "No download URL".
NoUrlMessage == IF variant = "cli" THEN "Could not get download URL" ELSE "No download URL"

LocKeeps ==
    UNCHANGED << envVars, runVars, histVars, pageVars, auxVars, folderVars, credVars,
                 appVars, pathVars, tripVars, agreeVars >>

InitLocator ==
    /\ variant \in { "cli", "gui" }
    /\ catalog = ShortCatalog
    /\ network = "ok"
    /\ credentials = AllCredentials
    /\ IdleEngine
    /\ IdlePage
    /\ IdleFolders
    /\ IdleApp
    /\ IdlePath
    /\ IdleTrip
    /\ IdleAgree
    /\ \E a \in Answers, b \in Answers :
          loc = [NewLoc EXCEPT !.largest = a, !.download = b]

\* The engine calls get_image_download_url(image_uri).
LocatorCall ==
    /\ loc.pc = "off"
    /\ loc' = [loc EXCEPT !.pc = "largest"]
    /\ LocKeeps

\* _get(image_uri!largestimage) gives a usable Url: "if url: return url".
LargestGiven ==
    /\ loc.pc = "largest"
    /\ HasResponse(loc.largest)
    /\ Truthy(UrlIn(loc.largest, LargestUrl))
    /\ loc' = [loc EXCEPT !.asked = Append(@, "largest"),
                          !.url = UrlIn(loc.largest, LargestUrl),
                          !.pc = "returned"]
    /\ LocKeeps

\* _get(image_uri!largestimage) gives nothing: go on to the fallback.
LargestNothing ==
    /\ loc.pc = "largest"
    /\ ~(HasResponse(loc.largest) /\ Truthy(UrlIn(loc.largest, LargestUrl)))
    /\ loc' = [loc EXCEPT !.asked = Append(@, "largest"), !.pc = "fallback"]
    /\ LocKeeps

\* _get(image_uri!download): "return download.get("Url")", whatever it is.
ArchiveAnswered ==
    /\ loc.pc = "fallback"
    /\ HasResponse(loc.download)
    /\ loc' = [loc EXCEPT !.asked = Append(@, "download"),
                          !.url = UrlIn(loc.download, ArchiveUrl),
                          !.pc = "returned"]
    /\ LocKeeps

\* _get(image_uri!download) gives no Response: "return None".
ArchiveNothing ==
    /\ loc.pc = "fallback"
    /\ ~HasResponse(loc.download)
    /\ loc' = [loc EXCEPT !.asked = Append(@, "download"), !.url = NoUrl,
                          !.pc = "returned"]
    /\ LocKeeps

\* "if not download_url:" mark_failed, failed += 1, continue.
EngineNoLocator ==
    /\ loc.pc = "returned"
    /\ ~Truthy(loc.url)
    /\ loc' = [loc EXCEPT !.ops = Append(@, "mark_failed"), !.failed = NoUrlMessage,
                          !.pc = "next"]
    /\ LocKeeps

\* With a locator: NamedTemporaryFile, download_image, upload_file.
EngineStages ==
    /\ loc.pc = "returned"
    /\ Truthy(loc.url)
    /\ loc' = [loc EXCEPT !.ops = Append(@, "tempfile"), !.pc = "staged"]
    /\ LocKeeps

EngineDownloads ==
    /\ loc.pc = "staged"
    /\ loc' = [loc EXCEPT !.ops = Append(@, "download"), !.pc = "downloaded"]
    /\ LocKeeps

EngineUploads ==
    /\ loc.pc = "downloaded"
    /\ loc' = [loc EXCEPT !.ops = Append(@, "upload"), !.pc = "next"]
    /\ LocKeeps

NextLocator ==
    \/ LocatorCall
    \/ LargestGiven
    \/ LargestNothing
    \/ ArchiveAnswered
    \/ ArchiveNothing
    \/ EngineNoLocator
    \/ EngineStages
    \/ EngineDownloads
    \/ EngineUploads

SpecLocator == InitLocator /\ [][NextLocator]_vars

\* ================================================== the folder path
\* path_parts = [p for p in url_path.strip("/").split("/") if p and p != nickname]
\* and "if not path_parts: path_parts = [album_name]".  A string is the
\* sequence of its characters; "n" is the one character of the nickname, "F"
\* any other character, "A" the one character of the album's display name.
PathChars == { "/", "n", "F" }
Nickname == << "n" >>
AlbumName == << "A" >>
UrlPaths == UNION { [1 .. k -> PathChars] : k \in 0 .. MaxPath }

\* str.strip("/"): the leading and the trailing "/" characters removed.
RECURSIVE LStrip(_)
LStrip(s) == IF s # << >> /\ Head(s) = "/" THEN LStrip(Tail(s)) ELSE s
RECURSIVE RStrip(_)
RStrip(s) ==
    IF s # << >> /\ s[Len(s)] = "/" THEN RStrip(SubSeq(s, 1, Len(s) - 1)) ELSE s
Strip(s) == RStrip(LStrip(s))

\* str.split("/"): the pieces between the separators, the empty ones too
\* ("".split("/") is [""]).
RECURSIVE SplitFrom(_, _)
SplitFrom(s, piece) ==
    IF s = << >> THEN << piece >>
    ELSE IF Head(s) = "/" THEN << piece >> \o SplitFrom(Tail(s), << >>)
    ELSE SplitFrom(Tail(s), Append(piece, Head(s)))
Split(s) == SplitFrom(s, << >>)

\* [p for p in pieces if keep(p)]
RECURSIVE Filter(_, _)
Filter(pieces, nick) ==
    IF pieces = << >> THEN << >>
    ELSE IF Head(pieces) # << >> /\ Head(pieces) # nick
         THEN << Head(pieces) >> \o Filter(Tail(pieces), nick)
         ELSE Filter(Tail(pieces), nick)

\* Faulty variant of the fallback: an empty path stays empty.
path_parts_no_fallback(url_path, nick, album_name) ==
    Filter(Split(Strip(url_path)), nick)

path_parts(url_path, nick, album_name) ==
    LET parts == Filter(Split(Strip(url_path)), nick)
    IN  IF parts = << >> THEN << album_name >> ELSE parts

PathKeeps ==
    UNCHANGED << envVars, runVars, histVars, pageVars, auxVars, folderVars, credVars,
                 appVars, locVars, tripVars, agreeVars >>

InitPath ==
    /\ variant \in { "cli", "gui" }
    /\ catalog = ShortCatalog
    /\ network = "ok"
    /\ credentials = AllCredentials
    /\ IdleEngine
    /\ IdlePage
    /\ IdleFolders
    /\ IdleApp
    /\ IdleLoc
    /\ IdleTrip
    /\ IdleAgree
    /\ \E u \in UrlPaths : pth = [NewPath EXCEPT !.url_path = u]

\* The album loop computes the album's folder path.
ComputePath ==
    /\ pth.pc = "off"
    /\ pth' = [pth EXCEPT !.parts = path_parts(pth.url_path, Nickname, AlbumName),
                          !.pc = "done"]
    /\ PathKeeps

NextPathParts == ComputePath

SpecPath == InitPath /\ [][NextPathParts]_vars

\* ============================================ the ledger's file format
\* MigrationState.save and MigrationState._load through the JSON text
\*   { "migrated": [key, ...], "failed": { key: reason, ... } }
\* The text is modelled as the JSON value it spells: an array (a sequence) and
\* an object (a set of key/value pairs, one per key).  Image keys and reasons
\* are strings in the program (ImageKey of the API's JSON, str(e) or a
\* literal), which JSON writes and reads back unchanged.
TripKeys == 1 .. MaxKeys
TripReasons == { NoReason, "download", "upload" }
TripLedgers ==
    { [migrated |-> m, failed |-> [i \in Items |-> IF i \in TripKeys THEN f[i] ELSE NoReason]]
        : m \in SUBSET TripKeys, f \in [TripKeys -> TripReasons] }

\* list(self.migrated): the elements of the set, each once, in the order the
\* set happens to iterate.
ListsOf(S) ==
    { q \in [1 .. Cardinality(S) -> S] : { q[k] : k \in 1 .. Cardinality(S) } = S }

\* Faulty variant of json.dump's argument: the failures are left out.
json_dump_done_only(st, order) ==
    [written |-> TRUE, migrated |-> order, failed |-> {}]

\* json.dump({"migrated": list(self.migrated), "failed": self.failed}, f)
json_dump(st, order) ==
    [written |-> TRUE, migrated |-> order,
     failed |-> { << i, st.failed[i] >> : i \in { k \in Items : st.failed[k] # NoReason } }]

\* data = json.load(f); set(data.get("migrated", [])); data.get("failed", {})
json_load(text) ==
    [migrated |-> { text.migrated[k] : k \in 1 .. Len(text.migrated) },
     failed |-> [i \in Items |->
                    IF \E e \in text.failed : e[1] = i
                    THEN (CHOOSE e \in text.failed : e[1] = i)[2]
                    ELSE NoReason]]

TripKeeps ==
    UNCHANGED << envVars, runVars, histVars, pageVars, auxVars, folderVars, credVars,
                 appVars, locVars, pathVars, agreeVars >>

InitTrip ==
    /\ variant \in { "cli", "gui" }
    /\ catalog = ShortCatalog
    /\ network = "ok"
    /\ credentials = AllCredentials
    /\ IdleEngine
    /\ IdlePage
    /\ IdleFolders
    /\ IdleApp
    /\ IdleLoc
    /\ IdlePath
    /\ IdleAgree
    /\ \E st \in TripLedgers : rt = [NewTrip EXCEPT !.ledger = st]

\* save(): open(STATE_FILE, "w") truncates the file.
TripOpen ==
    /\ rt.pc = "off"
    /\ rt' = [rt EXCEPT !.text = NoText, !.pc = "open"]
    /\ TripKeeps

\* save(): json.dump writes the text and the file is closed.
TripDump ==
    /\ rt.pc = "open"
    /\ \E order \in ListsOf(rt.ledger.migrated) :
          rt' = [rt EXCEPT !.text = json_dump(rt.ledger, order), !.pc = "saved"]
    /\ TripKeeps

\* MigrationState() in a new process: _load reads the file.
TripLoad ==
    /\ rt.pc = "saved"
    /\ rt' = [rt EXCEPT !.loaded = json_load(rt.text), !.pc = "loaded"]
    /\ TripKeeps

NextTrip == TripOpen \/ TripDump \/ TripLoad

SpecTrip == InitTrip /\ [][NextTrip]_vars

\* ================================================ the two image loops
\* The image loop of migrate and the image loop of _run_migration, run side by
\* side over the same album from the same ledger, with the same flags and the
\* same outcomes of the external calls, the stop flag never set.
\* What the external calls do for an image:
\*   exists  what file_exists does when it is called: "found", "absent", "raises"
\*   rest    the first call after it that fails, or "ok": "nourl" (no download
\*           URL), "tempfile" (NamedTemporaryFile raises), "download"
\*           (download_image returns False), "upload" (upload_file raises)
AgreeItems == 1 .. MaxAgree
CallOutcomes ==
    [exists : { "found", "absent", "raises" },
     rest : { "ok", "nourl", "tempfile", "download", "upload" }]
AgreeLedgers ==
    { [migrated |-> m,
       failed |-> [i \in Items |-> IF i \in f THEN "upload" ELSE NoReason]]
        : m \in SUBSET AgreeItems, f \in SUBSET AgreeItems }

\* The loop went on to the next image with the ledger st.
Went(e, st, act) == [e EXCEPT !.st = st, !.acts = Append(@, act)]

\* The loop was left by an exception after the ledger became st.
Left(e, st, act) == [e EXCEPT !.st = st, !.acts = Append(@, act), !.over = TRUE]

\* One pass of the loop body of engine v ("cli": migrate 462-521, "gui":
\* _run_migration 1091-1156) for the image key.  e.bound: migrate's local
\* tmp_path has been assigned in this call.
ItemPass(v, e, key, fl, o) ==
    IF e.over THEN [e EXCEPT !.acts = Append(@, "none")]
    ELSE IF SkipMigrated(e.st, key, fl.retry_failed) THEN Went(e, e.st, "skip")
    ELSE IF SkipFailed(e.st, key, fl.retry_failed) THEN Went(e, e.st, "skip")
    ELSE IF fl.skip_existing /\ o.exists = "raises" THEN Left(e, e.st, "raise")
    ELSE IF fl.skip_existing /\ o.exists = "found"
         THEN Went(e, mark_done(e.st, key), "skip_existing")
    ELSE IF o.rest = "nourl" THEN Went(e, mark_failed(e.st, key, "nourl"), "fail")
    ELSE IF o.rest = "tempfile"
         THEN IF v = "cli" /\ ~e.bound
              THEN Left(e, mark_failed(e.st, key, "tempfile"), "fail")
              ELSE Went(e, mark_failed(e.st, key, "tempfile"), "fail")
    ELSE IF o.rest = "ok"
         THEN Went([e EXCEPT !.bound = TRUE], mark_done(e.st, key), "migrate")
    ELSE Went([e EXCEPT !.bound = TRUE], mark_failed(e.st, key, o.rest), "fail")

AgreeKeeps ==
    UNCHANGED << envVars, runVars, histVars, pageVars, auxVars, folderVars, credVars,
                 appVars, locVars, pathVars, tripVars >>

InitAgree ==
    /\ variant = "cli"
    /\ catalog = ShortCatalog
    /\ network = "ok"
    /\ credentials = AllCredentials
    /\ IdleEngine
    /\ IdlePage
    /\ IdleFolders
    /\ IdleApp
    /\ IdleLoc
    /\ IdlePath
    /\ IdleTrip
    /\ \E st \in AgreeLedgers, se \in BOOLEAN, rf \in BOOLEAN,
          o \in [AgreeItems -> CallOutcomes] :
          ag = [idx |-> 1, flags |-> [skip_existing |-> se, retry_failed |-> rf],
                oracle |-> o,
                cli |-> [NoLoop EXCEPT !.st = st],
                gui |-> [NoLoop EXCEPT !.st = st]]

\* Both loops make their pass for the next image of the album.
BothPass ==
    /\ ag.idx \in AgreeItems
    /\ ag' = [ag EXCEPT
                 !.cli = ItemPass("cli", @, ag.idx, ag.flags, ag.oracle[ag.idx]),
                 !.gui = ItemPass("gui", @, ag.idx, ag.flags, ag.oracle[ag.idx]),
                 !.idx = @ + 1]
    /\ AgreeKeeps

NextAgree == BothPass

SpecAgree == InitAgree /\ [][NextAgree]_vars

\* ===================================================== the GUI's threads
\* MigrationApp: the Tk main thread runs the button commands and the callbacks
\* scheduled with after(0, ...), one at a time; _start_migration starts a
\* thread on _run_migration, whose last act is _finish.
\* A thread is "unborn", in "loop" (between two images: counting, folders, the
\* stop tests, the saves), in "image" (an image in hand), in "finish1" ..
\* "finish3" (about to make the first .. third after call of _finish) or "ended".
Alive(t) == app.thread[t].pc \notin { "unborn", "ended" }
Migrating(t) == app.thread[t].pc \in { "loop", "image" }

\* Faulty variant of the Start button's state after a start: left enabled.
start_stays_normal(a) == a.start_btn

\* self.start_btn.config(state="disabled")
StartDisabled(a) == "disabled"

OthersIdle ==
    UNCHANGED << envVars, runVars, histVars, pageVars, auxVars, folderVars, credVars,
                 locVars, pathVars, tripVars, agreeVars >>

InitApp ==
    /\ variant = "gui"
    /\ catalog = ShortCatalog
    /\ network = "ok"
    /\ credentials = AllCredentials
    /\ IdleEngine
    /\ IdlePage
    /\ IdleFolders
    /\ IdleLoc
    /\ IdlePath
    /\ IdleTrip
    /\ IdleAgree
    /\ app = NewApp

\* A click on Start.  A disabled ttk button does not invoke its command; with
\* the button enabled _start_migration (its checks passed) clears the stop
\* flag, disables Start, enables Stop and starts a new migration thread.
StartClick ==
    /\ app.start_btn = "normal"
    /\ \E t \in Threads :
          /\ app.thread[t].pc = "unborn"
          /\ \A u \in Threads : u < t => app.thread[u].pc # "unborn"
          /\ app' = [app EXCEPT !.stop_flag = FALSE,
                                !.start_btn = StartDisabled(app),
                                !.stop_btn = "normal",
                                !.thread[t] = [pc |-> "loop", item |-> 1]]
    /\ OthersIdle

\* A click on Stop (enabled): _stop_migration sets the flag, disables Stop.
StopClick ==
    /\ app.stop_btn = "normal"
    /\ app' = [app EXCEPT !.stop_flag = TRUE, !.stop_btn = "disabled"]
    /\ OthersIdle

\* The image loop takes the next image: the stop flag is clear.
ThreadImage(t) ==
    /\ app.thread[t].pc = "loop"
    /\ ~app.stop_flag
    /\ app.thread[t].item <= WorkItems
    /\ app' = [app EXCEPT !.thread[t].pc = "image"]
    /\ OthersIdle

\* The loop body ends for the image in hand.
ThreadImageDone(t) ==
    /\ app.thread[t].pc = "image"
    /\ app' = [app EXCEPT !.thread[t].pc = "loop", !.thread[t].item = @ + 1]
    /\ OthersIdle

\* The loops are left (stop flag set, or no image left); the final save and
\* the status follow, then _finish().
ThreadLeaves(t) ==
    /\ app.thread[t].pc = "loop"
    /\ app.stop_flag \/ app.thread[t].item > WorkItems
    /\ app' = [app EXCEPT !.thread[t].pc = "finish1"]
    /\ OthersIdle

\* An exception reaches the handler of _run_migration; _finish() follows.
ThreadError(t) ==
    /\ app.thread[t].pc \in { "loop", "image" }
    /\ app' = [app EXCEPT !.thread[t].pc = "finish1"]
    /\ OthersIdle

\* _finish: the three after(0, ...) calls, one step each; the thread ends
\* with the third.
ThreadFinish(t) ==
    /\ app.thread[t].pc \in { "finish1", "finish2", "finish3" }
    /\ app' = [app EXCEPT
                  !.after = Append(@, CASE app.thread[t].pc = "finish1" -> "start_normal"
                                        [] app.thread[t].pc = "finish2" -> "stop_disabled"
                                        [] OTHER -> "fetch_normal"),
                  !.thread[t].pc = CASE app.thread[t].pc = "finish1" -> "finish2"
                                     [] app.thread[t].pc = "finish2" -> "finish3"
                                     [] OTHER -> "ended"]
    /\ OthersIdle

\* The main loop runs the oldest scheduled callback.
AfterCallback ==
    /\ app.after # << >>
    /\ LET cb == Head(app.after) IN
       app' = [app EXCEPT
                  !.after = Tail(@),
                  !.start_btn = IF cb = "start_normal" THEN "normal" ELSE @,
                  !.stop_btn = IF cb = "stop_disabled" THEN "disabled" ELSE @]
    /\ OthersIdle

NextApp ==
    \/ StartClick
    \/ StopClick
    \/ AfterCallback
    \/ \E t \in Threads :
          \/ ThreadImage(t)
          \/ ThreadImageDone(t)
          \/ ThreadLeaves(t)
          \/ ThreadError(t)
          \/ ThreadFinish(t)

SpecApp == InitApp /\ [][NextApp]_vars

\* ================================================================ claims
Listed == CatalogItems(catalog)
Transferred(i) == calls[i] \cap { "download", "upload" } # {}

\* The record the in-memory ledger / the ledger file holds for an item.
MemRec(i) == << i \in state.migrated, state.failed[i] >>
FileRec(i) == << i \in stateFile.migrated, stateFile.failed[i] >>
\* Items whose in-memory record is not the persisted one.
Unsaved == { i \in Items : MemRec(i) # FileRec(i) }

\* C1  Resume correctness: in a run that loaded the ledger, no download and no
\* upload call is made for an item the loaded ledger records as Done, whatever
\* the flags and the destination state.
C1_ResumeCorrectness ==
    atStart.loaded =>
        \A i \in atStart.ledger.migrated : ~Transferred(i)

SecondOfTwo ==
    /\ runs >= 2
    /\ prevEnded.how = "completed"
    /\ ~prevEnded.dry
    /\ ~dry_run

\* C3  Idempotence: the second of two completed runs makes no download and no
\* upload call, and every item is resolved (skipped) through the ledger or the
\* existence check.
C3_Idempotence ==
    SecondOfTwo =>
        /\ \A i \in Items : ~Transferred(i)
        /\ ended = "completed" => \A i \in Listed : outcome[i] = "skipped"

\* C3 (amended)  The same, for a second run made with retry_failed = FALSE.
C3_IdempotenceNoRetry ==
    (SecondOfTwo /\ ~retry_failed) =>
        /\ \A i \in Items : ~Transferred(i)
        /\ ended = "completed" => \A i \in Listed : outcome[i] = "skipped"

\* A completed second run that skipped every item, one of them recorded Failed
\* and one recorded Done by the first run.
C3_Witness ==
    /\ SecondOfTwo
    /\ ~retry_failed
    /\ ended = "completed"
    /\ \A i \in Listed : outcome[i] = "skipped"
    /\ \E i \in Listed : in_failed(atStart.ledger, i)
    /\ \E i \in Listed : is_done(atStart.ledger, i)

\* C4  Crash-window bound: at every point of a run at most SaveEvery - 1 items
\* have an outcome in the in-memory ledger that is not in the ledger file.
C4_CrashWindow ==
    (pc # "idle" /\ atStart.loaded) => Cardinality(Unsaved) <= SaveEvery - 1

\* C5  GUI: whenever the loop is between two items, every outcome recorded so
\* far is in the ledger file.
C5_SavedAfterEveryFile ==
    (variant = "gui" /\ atStart.loaded /\ pc \in { "item", "album", "finalsave" })
        => Unsaved = {}

\* C6  Retry success: an item the loaded ledger records as Failed, retried with
\* retry_failed = TRUE, whose download and upload succeeded, is in the done set
\* and not in the failed map; so it is in the file the completed run leaves.
C6_RetrySuccess ==
    \A i \in Items :
        (atStart.loaded /\ retry_failed /\ in_failed(atStart.ledger, i)
            /\ outcome[i] = "migrated")
        => /\ { "download", "upload" } \subseteq calls[i]
           /\ pc # "idle" => (is_done(state, i) /\ ~in_failed(state, i))
           /\ ended = "completed" =>
                 (is_done(stateFile, i) /\ ~in_failed(stateFile, i))

C6_Witness ==
    /\ pc # "idle"
    /\ retry_failed
    /\ \E i \in Listed :
          /\ in_failed(atStart.ledger, i)
          /\ ~is_done(atStart.ledger, i)
          /\ outcome[i] = "migrated"
          /\ is_done(state, i)

\* C7  Failed items are not retried by default: with retry_failed = FALSE an
\* item the loaded ledger records as Failed gets no existence query, no locator
\* resolution, no download and no upload, keeps its reason, and a completed
\* migrating run has counted it as skipped and leaves it Failed in the file
\* (as does a crashed run, unless the crash tore the file: C14).
C7_FailedNotRetried ==
    \A i \in Items :
        (atStart.loaded /\ ~retry_failed /\ in_failed(atStart.ledger, i))
        => /\ calls[i] = {}
           /\ outcome[i] \in { "none", "skipped" }
           /\ pc # "idle" => state.failed[i] = atStart.ledger.failed[i]
           /\ (ended = "completed" \/ (ended = "crashed" /\ ~Unparsable(stateFile)))
                 => stateFile.failed[i] = atStart.ledger.failed[i]
           /\ (ended = "completed" /\ ~dry_run) => outcome[i] = "skipped"

C7_Witness ==
    /\ ended = "completed"
    /\ ~retry_failed
    /\ ~dry_run
    /\ \E i \in Listed :
          /\ in_failed(atStart.ledger, i)
          /\ ~is_done(atStart.ledger, i)
          /\ outcome[i] = "skipped"
          /\ in_failed(stateFile, i)

\* C8  Dry-run purity: a dry run makes no external call for any item, changes
\* neither the in-memory ledger nor the ledger file (which it does not create
\* either), and reports DONE exactly for the listed items of the done set.
C8_DryRunPurity ==
    (dry_run /\ ended # "never") =>
        /\ \A i \in Items : calls[i] = {}
        /\ (pc # "idle" /\ atStart.loaded) => state = atStart.ledger
        /\ stateFile = atStart.file
        /\ \A i \in Items :
              report[i] # "none" =>
                  report[i] = (IF i \in atStart.ledger.migrated THEN "DONE" ELSE "PENDING")

\* C9  A dry run changes nothing at the destination: it creates no folder.
C9_DryRunNoFolders ==
    (dry_run /\ ended # "never") =>
        /\ destFolders = atStart.folders
        /\ \A i \in Items : "upload" \notin calls[i]

\* C10  Pagination completeness: when the provider serves the N items in pages
\* of at most P items, reports the total N and no request fails, the listing
\* call returns exactly the N items, each once, in listing order.
C10_PaginationComplete ==
    (pgPc = "done" /\ pgTotal = pgN /\ ~pgFailed) => pgAcc = Listing(pgN)

\* A listing served in several pages, the last one shorter than the others.
C10_Witness ==
    /\ pgPc = "done"
    /\ pgTotal = pgN
    /\ ~pgFailed
    /\ pgP < pgN
    /\ pgN % pgP # 0
    /\ pgRequests > 1
    /\ pgAcc = Listing(pgN)

\* A listing served in several full pages (N an exact multiple of P).
C10_WitnessMultiple ==
    /\ pgPc = "done"
    /\ pgTotal = pgN
    /\ ~pgFailed
    /\ pgP < pgN
    /\ pgN % pgP = 0
    /\ pgAcc = Listing(pgN)

\* C12  Ledger uniqueness: whatever mark_done / mark_failed calls the engine
\* makes, under any flags, no item is both in the done set and in the failed
\* map, neither in the in-memory ledger nor in the ledger file.
C12_LedgerUniqueness ==
    \A i \in Items :
        /\ ~(is_done(state, i) /\ in_failed(state, i))
        /\ ~(is_done(stateFile, i) /\ in_failed(stateFile, i))

\* C14  Atomic save: the process dying at any point of a save leaves the ledger
\* file with the complete previous or the complete new mapping, that is, with
\* text a later load parses; it is never left empty or partially written.
C14_AtomicSave ==
    (pc = "idle" /\ ended = "crashed") => ~Unparsable(stateFile)

\* C13  Ledger load: an absent ledger file loads as the empty ledger without
\* error; with a present but unparsable file the run ends with a fatal error
\* before any mutation: no folder is created, no call is made for any item and
\* the ledger file is left as it was.
C13_LedgerLoad ==
    /\ (atStart.loaded /\ ~atStart.file.present) => atStart.ledger = EmptyLedger
    /\ (ended # "never" /\ Unparsable(atStart.file)) =>
          /\ ~atStart.loaded
          /\ pc = "idle" => ended \in { "fatal", "crashed" }
          /\ destFolders = atStart.folders
          /\ \A i \in Items : calls[i] = {}
          /\ stateFile = atStart.file

\* The record the ledger held in memory when the last run ended.
EndRec(i) == << i \in atEnd.ledger.migrated, atEnd.ledger.failed[i] >>
\* The last run has ended, and not by the death of the process.
RunOver == pc = "idle" /\ ended \notin { "never", "crashed" }

\* C15  Save at run end: every run that loaded the ledger and then ended, by
\* success, by cancellation or by a failure escaping the item loop (a failed
\* existence query or folder creation), made a final save: the ledger file holds
\* every entry the run had in memory.
C15_SaveAtRunEnd ==
    (RunOver /\ atStart.loaded) =>
        /\ ~Unparsable(stateFile)
        /\ \A i \in Items : FileRec(i) = EndRec(i)

\* C16  Per-item failure isolation: a failure of any step of an item (existence
\* check, locator resolution, staging file, download, upload) is caught at the
\* item boundary: the item is recorded Failed with the reason and the run goes
\* on; no run is ended by a failure raised in a step of an item.
C16_FailureIsolation ==
    /\ \A i \in Items :
          (outcome[i] = "failed" /\ pc # "idle") => in_failed(state, i)
    /\ RunOver => atEnd.at \notin InItem

\* Items for which the current run has made a call or counted an outcome.
Started == { i \in Items : calls[i] # {} \/ outcome[i] # "none" }

\* C17  Cooperative cancellation (GUI): with the stop flag set no further item
\* and no further album is begun; and when a run in which the flag was set and
\* the ledger loaded is over, every item it had begun has its outcome (the item
\* in flight was completed), the ledger file holds every entry of the run, and
\* the run ended as "stopped" with its partial counts reported.
C17_CooperativeCancellation ==
    variant = "gui" =>
        /\ lateStarts = NoLateStarts
        /\ (RunOver /\ stop_flag /\ atStart.loaded) =>
              /\ ended = "stopped"
              /\ \A i \in Started : outcome[i] # "none"
              /\ \A i \in Items : FileRec(i) = EndRec(i)
              /\ atEnd.migrated + atEnd.skipped + atEnd.failed
                    = Cardinality({ i \in Items : outcome[i] # "none" })

\* The reason of the failure of an attempt that made the calls cs.
FailureOf(cs) ==
    IF "upload" \in cs THEN "upload"
    ELSE IF "download" \in cs THEN "download"
    ELSE IF "tempfile" \in cs THEN "tempfile"
    ELSE "nourl"

\* C18  Failures always reported: when a run has ended normally (completed, or
\* stopped from the GUI), every item whose transfer attempt failed in that run
\* is in the failed map of the ledger file with the reason of its failure, and
\* the reported failed counter is the number of failure outcomes of the run.
C18_FailuresReported ==
    (pc = "idle" /\ ended \in { "completed", "stopped" }) =>
        /\ \A i \in Items :
              outcome[i] = "failed" => stateFile.failed[i] = FailureOf(calls[i])
        /\ atEnd.failed = Cardinality({ i \in Items : outcome[i] = "failed" })

\* A completed run in which two items failed, for different reasons.
C18_Witness ==
    /\ pc = "idle"
    /\ ended = "completed"
    /\ \E i, j \in Listed :
          /\ outcome[i] = "failed"
          /\ outcome[j] = "failed"
          /\ stateFile.failed[i] = "download"
          /\ stateFile.failed[j] = "upload"
    /\ atEnd.failed = 2

\* C19  Reset Progress (GUI): after a confirmed reset the ledger file never
\* holds an entry recorded before the reset, whatever a running migration
\* thread does afterwards.
C19_ResetProgress ==
    \A i \in stale : ~is_done(stateFile, i) /\ ~in_failed(stateFile, i)

RECURSIVE NamesBelow(_, _)
NamesBelow(top, id) ==
    IF id = top \/ id = MyDrive
    THEN << >>
    ELSE LET f == CHOOSE g \in fDrive : g.id = id
         IN  Append(NamesBelow(top, f.parent), f.name)

\* The run resolved the root folder and every album's folder.
Resolved(r) == fRun[r].pc = "done" /\ ~fRun[r].crashed

\* C11  Hierarchy materialization: no two folders of the same name under the
\* same parent are made; when a run is over, the folder it resolved for each
\* album is the end of the chain root/s1/.../sn of the album's path segments;
\* and a run made after a run that resolved every folder makes no folder.
C11_HierarchyMaterialization ==
    /\ \A f, g \in fDrive : (f.name = g.name /\ f.parent = g.parent) => f = g
    /\ \A r \in FolderRuns :
          Resolved(r) =>
              \A a \in 1 .. Len(fScen.paths) :
                  NamesBelow(fRun[r].root, fRun[r].dest[a]) = fScen.paths[a]
    /\ \A r, q \in FolderRuns : (q < r /\ Resolved(q)) => fRun[r].made = {}

\* A call of migrate by the CLI has ended, and not by the death of the process.
CliOver == variant = "cli" /\ RunOver

\* Nothing was done before the exit: no authentication, no listing, no call
\* for any item, no folder, and the ledger file neither read nor written.
NothingDone ==
    /\ atStart.authed = {}
    /\ atEnd.at = "credentials"
    /\ ~atStart.loaded
    /\ stateFile = atStart.file
    /\ destFolders = atStart.folders
    /\ \A i \in Items : calls[i] = {}

C21_WitnessPartial ==
    /\ CliOver
    /\ ended = "completed"
    /\ atEnd.failed > 0
    /\ atEnd.exit = 0

\* The ledger state of the item when the run loaded the ledger makes the
\* run skip it: Done or Failed, without retry_failed.
SkipByLedger(i) ==
    ~retry_failed /\ (is_done(atStart.ledger, i) \/ in_failed(atStart.ledger, i))

\* The destination held a file of the item's name before this run uploaded one.
ExistedBefore(i) ==
    destFiles[i] - (IF outcome[i] = "migrated" THEN 1 ELSE 0) > 0

C22_WitnessRetry ==
    /\ atStart.loaded
    /\ retry_failed
    /\ ~skip_existing
    /\ \E i \in Listed :
          /\ in_failed(atStart.ledger, i)
          /\ outcome[i] = "migrated"
          /\ "exists" \notin calls[i]

\* The items of a catalog in listing order: album after album, image after image.
RECURSIVE Flat(_)
Flat(c) == IF c = << >> THEN << >> ELSE Head(c) \o Flat(Tail(c))

\* The items the run has dealt with: counted, or reported by a dry run.
Processed == { i \in Items : outcome[i] # "none" \/ report[i] # "none" }

\* S is the set of the first n items of the listing order, for some n: it
\* holds listed items only, and with an item the one listed before it.
IsPrefix(order, S) ==
    /\ \A i \in S : \E k \in 1 .. Len(order) : order[k] = i
    /\ \A k \in 2 .. Len(order) : order[k] \in S => order[k - 1] \in S

\* C23  Processing order: the items a run has processed, and those it has
\* begun, are the first items of the listing order (albums in catalog order,
\* images in listing order); the item in hand is the next of that order; a run
\* that completed has processed every listed item exactly once; and every item
\* whose ledger entry the run changed, in memory or in a parsable ledger file,
\* is among the processed.
C23_ProcessingOrder ==
    /\ LET order == Flat(catalog)
           done == Processed
           begun == Processed \cup Started
       IN  /\ IsPrefix(order, done)
           /\ IsPrefix(order, begun)
           /\ pc \in InItem => IsPrefix(order, done \cup { CurKey })
    /\ (pc = "idle" /\ ended = "completed") =>
          /\ Processed = Listed
          /\ ~dry_run =>
                atEnd.migrated + atEnd.skipped + atEnd.failed = Cardinality(Listed)
    /\ (pc # "idle" /\ atStart.loaded) =>
          \A i \in Items :
              MemRec(i) # << is_done(atStart.ledger, i), atStart.ledger.failed[i] >>
                  => i \in Processed
    /\ (ended # "never" /\ ~Unparsable(stateFile)) =>
          \A i \in Items :
              FileRec(i) # << is_done(atStart.file, i), atStart.file.failed[i] >>
                  => i \in Processed

\* A run over two albums is in the second one, the first album's items
\* processed and the ledger changed for them only.
C23_Witness ==
    /\ pc \in InItem
    /\ albumIdx = 2
    /\ Processed = { albums[1][k] : k \in 1 .. Len(albums[1]) }
    /\ \E i \in Processed : is_done(state, i) /\ ~is_done(atStart.ledger, i)

\* C24  Single worker (GUI): at every moment at most one migration thread is
\* alive, at most one image is in hand, and Start is disabled while a thread
\* is alive, whatever the order of Start, Stop and thread completion.
C24_SingleWorker ==
    /\ Cardinality({ t \in Threads : Alive(t) }) <= 1
    /\ Cardinality({ t \in Threads : app.thread[t].pc = "image" }) <= 1
    /\ (\E t \in Threads : Alive(t)) => app.start_btn = "disabled"

\* C24 (amended)  At every moment at most one migration thread is in its
\* migration (from its start to its call of _finish), so at most one image is
\* in hand, and Start is disabled while a thread is in its migration: a Start
\* click then starts no thread.  The thread before it may still be alive,
\* inside _finish.
C24_SingleMigration ==
    /\ Cardinality({ t \in Threads : Migrating(t) }) <= 1
    /\ Cardinality({ t \in Threads : app.thread[t].pc = "image" }) <= 1
    /\ (\E t \in Threads : Migrating(t)) => app.start_btn = "disabled"

\* A second migration thread has an image in hand after the first one ended,
\* stopped by the Stop button.
C24_Witness ==
    /\ app.thread[1].pc = "ended"
    /\ app.thread[1].item <= WorkItems
    /\ app.thread[2].pc = "image"
    /\ app.start_btn = "disabled"

\* The number of items the run has processed so far, whatever their outcome.
ProcessedCount == Cardinality({ i \in Items : outcome[i] # "none" })

\* C25  Save cadence: whenever the number of items processed so far in the
\* run is a multiple of SaveEvery, the ledger has been saved before the next
\* item is started: the ledger file holds every entry the run has in memory.
C25_SaveCadence ==
    (atStart.loaded /\ pc = "item" /\ ProcessedCount > 0
        /\ ProcessedCount % SaveEvery = 0)
    => (~Unparsable(stateFile) /\ Unsaved = {})

\* C26  Staging cleanup: an item whose transfer attempt of this run made a
\* staging file (it went on to the download) and is over, however it ended,
\* has no staging file left; the file the cleanup looks at
\* is the one made for the item in hand; and the cleanup never raises: no run
\* is ended in the staging step.
C26_StagingCleanup ==
    /\ \A i \in Items :
          ("download" \in calls[i] /\ outcome[i] # "none") => i \notin tmpFiles
    /\ pc \in { "download", "upload" } =>
          (tmp_path = StagingFile(CurKey) /\ CurKey \in tmpFiles)
    /\ RunOver => atEnd.at # "tempfile"

\* The same for the GUI alone, where tmp_path is None before each attempt.
C26_StagingCleanupGui == variant = "gui" => C26_StagingCleanup

\* C27  Pagination step and stop condition: every request that does not end
\* the loop returned a non-empty page and moves start on by the number of
\* items returned; and a request ends the loop exactly when it fails, when
\* its page is empty, or when start plus the length of its page exceeds the
\* reported total (a short non-empty page alone does not end it).
C27_PaginationStep ==
    [][pgPc = "loop" =>
          LET page == ProviderPage(pgN, pgP, pgStart, PageCount)
              got == Len(pgAcc') - Len(pgAcc)
          IN  /\ pgRequests' = pgRequests + 1
              /\ pgPc' = "loop" =>
                    (got > 0 /\ got = Len(page) /\ pgStart' = pgStart + got)
              /\ pgPc' = "done" <=>
                    (pgFailed' \/ page = << >> \/ pgStart + Len(page) > pgTotal)]_vars

\* The loop goes on after two non-empty pages, each shorter than the
\* requested count, from the start they add up to.
C27_Witness ==
    /\ pgPc = "loop"
    /\ pgRequests = 2
    /\ Len(pgAcc) = 2 * pgP
    /\ pgP < PageCount
    /\ pgStart = PageStart + Len(pgAcc)

\* C28  Pagination terminates: whatever the provider returns (pages that end,
\* or never an empty page), start grows by at least one with every request
\* that does not end the loop and never passes the reported total by more
\* than one, so the loop makes at most total + 1 requests.
C28_PaginationTerminates ==
    /\ pgRequests <= pgTotal + 1
    /\ pgPc = "loop" =>
          (pgStart >= PageStart + pgRequests /\ pgStart <= pgTotal + 1)

\* The loop ends (with each request answered, under fairness).
C28_Finishes == <>(pgPc = "done")

\* The loop has ended against a provider that never returned an empty page,
\* after several requests.
C28_Witness ==
    /\ pgProvider = "endless"
    /\ pgPc = "done"
    /\ ~pgFailed
    /\ pgRequests > 2
    /\ Len(pgAcc) > pgN

\* C29  No premature end on a wrong total: when the provider reports a total
\* smaller than the number of items it holds (a missing total reads as 0) and
\* no request fails, the listing call still returns every item.
C29_StaleTotal ==
    (pgPc = "done" /\ ~pgFailed /\ pgTotal < pgN) => pgAcc = Listing(pgN)

\* The record the ledger the run loaded / the file the run found holds.
LoadedRec(i) == << is_done(atStart.ledger, i), atStart.ledger.failed[i] >>
FoundRec(i) == << is_done(atStart.file, i), atStart.file.failed[i] >>

\* C30  Page-request failure: a listing call whose page request fails ends
\* without error and returns the items of the pages before the failure, the
\* first items of the listing in order; the engine then makes calls, counts
\* outcomes and prints report lines only for the items its listings returned,
\* and the other items keep their ledger entries, in memory and in the file.
C30_PageRequestFailure ==
    /\ pgPc = "done" =>
          /\ pgAcc = SubSeq(Listing(pgN), 1, Len(pgAcc))
          /\ pgFailed => Len(pgAcc) = (pgRequests - 1) * pgP
          /\ ~pgFailed => pgAcc = Listing(pgN)
    /\ RunOver => atEnd.at # "listing" \/ ended = "returned"
    /\ \A i \in Items :
          (calls[i] # {} \/ outcome[i] # "none" \/ report[i] # "none")
              => i \in atStart.listed
    /\ \A i \in Items \ atStart.listed :
          /\ (pc # "idle" /\ atStart.loaded) => MemRec(i) = LoadedRec(i)
          /\ (ended # "never" /\ ~Unparsable(stateFile)) => FileRec(i) = FoundRec(i)

\* A completed run after a listing cut short by a failed request: it processed
\* the item listed before the failure and wrote the ledger with the entry an
\* earlier run made for the item left unlisted.
C30_Witness ==
    /\ pc = "idle"
    /\ ended = "completed"
    /\ ~dry_run
    /\ atStart.listed = { 1 }
    /\ outcome[1] # "none"
    /\ outcome[2] = "none"
    /\ is_done(atStart.file, 2)
    /\ is_done(stateFile, 2)

\* C31  Locator resolution order: the largest-available rendition is asked
\* for first and its URL returned when non-empty, after that one request; only
\* otherwise is the original (archive) rendition asked for and its URL returned;
\* when both give nothing no locator is returned after exactly these two
\* requests, and the engine marks the item failed without making a staging
\* file, downloading or uploading.
C31_LocatorOrder ==
    /\ loc.asked \in { << >>, << "largest" >>, << "largest", "download" >> }
    /\ loc.pc \in { "returned", "next", "staged", "downloaded" } =>
          /\ loc.largest = "url" => loc.asked = << "largest" >> /\ loc.url = LargestUrl
          /\ loc.largest # "url" =>
                /\ loc.asked = << "largest", "download" >>
                /\ loc.download = "url" => loc.url = ArchiveUrl
                /\ loc.download # "url" => loc.url \in { NoUrl, EmptyUrl }
    /\ (loc.pc = "next" /\ loc.largest # "url" /\ loc.download # "url") =>
          /\ loc.ops = << "mark_failed" >>
          /\ loc.failed = NoUrlMessage
    /\ loc.failed # NoReason => loc.largest # "url" /\ loc.download # "url"

\* Both requests were made, neither gave a URL, and the engine has marked the
\* item failed.
C31_Witness ==
    /\ loc.pc = "next"
    /\ loc.asked = << "largest", "download" >>
    /\ loc.largest = "empty"
    /\ loc.failed # NoReason

\* The fallback gave the URL after the largest rendition gave none.
C31_WitnessFallback ==
    /\ loc.pc = "next"
    /\ loc.largest = "nourl"
    /\ loc.url = ArchiveUrl
    /\ loc.ops = << "tempfile", "download", "upload" >>

\* The non-empty segments of a path, in order.
RECURSIVE Segments(_, _)
Segments(s, piece) ==
    IF s = << >> THEN (IF piece = << >> THEN << >> ELSE << piece >>)
    ELSE IF Head(s) = "/"
         THEN (IF piece = << >> THEN << >> ELSE << piece >>) \o Segments(Tail(s), << >>)
         ELSE Segments(Tail(s), Append(piece, Head(s)))

\* The segments with only the account-root segment (a first segment equal to
\* the nickname) removed.
RootStripped(url_path) ==
    LET segs == Segments(url_path, << >>)
    IN  IF segs # << >> /\ Head(segs) = Nickname THEN Tail(segs) ELSE segs

\* C32  Path segments: the folder path of a collection is the sequence of
\* the non-empty segments of its hierarchy path with only the account-root
\* segment removed, a later segment equal to the nickname kept; when that
\* sequence is empty it is the single segment equal to the display name.
C32_PathSegments ==
    pth.pc = "done" =>
        pth.parts = IF RootStripped(pth.url_path) = << >>
                    THEN << AlbumName >>
                    ELSE RootStripped(pth.url_path)

\* What the code keeps to: every segment equal to the nickname is removed,
\* wherever it stands; the other non-empty segments are kept in order.
C32_PathSegmentsFiltered ==
    pth.pc = "done" =>
        LET kept == Filter(Segments(pth.url_path, << >>), Nickname)
        IN  pth.parts = IF kept = << >> THEN << AlbumName >> ELSE kept

C32_Witness ==
    /\ pth.pc = "done"
    /\ pth.url_path = << "/", "n", "/", "F", "F" >>
    /\ pth.parts = << << "F", "F" >> >>

\* Two logged steps are about the same (parent_id, name).
SamePair(e, f) == e.parent = f.parent /\ e.name = f.name

\* C33  ensureFolder is idempotent and memoized: within one run, for every
\* (parent_id, name), get_or_create_folder returns the same folder id on every
\* call, queries the destination at most once and creates at most one folder;
\* it creates a folder only when the query found no non-trashed folder of that
\* name under that parent; and a call answered from the cache is answered with
\* what an earlier call for the same (parent_id, name) returned.
C33_EnsureFolderMemoized ==
    \A r \in FolderRuns :
        LET L == fRun[r].log
        IN  /\ \A i, j \in DOMAIN L :
                  (SamePair(L[i], L[j]) /\ L[i].id # MyDrive /\ L[j].id # MyDrive)
                      => L[i].id = L[j].id
            /\ \A i, j \in DOMAIN L :
                  (i < j /\ SamePair(L[i], L[j]) /\ L[i].op = L[j].op)
                      => L[i].op = "hit"
            /\ \A j \in DOMAIN L :
                  L[j].op = "create" =>
                      /\ j > 1
                      /\ L[j - 1] = [L[j] EXCEPT !.op = "query", !.id = MyDrive]
            /\ \A j \in DOMAIN L :
                  L[j].op = "hit" =>
                      \E i \in 1 .. j - 1 :
                          /\ SamePair(L[i], L[j])
                          /\ L[i].op \in { "query", "create" }
                          /\ L[i].id = L[j].id
            /\ fRun[r].pc = "create" =>
                  ~\E f \in fDrive : /\ f.name = WantName(fRun[r])
                                     /\ f.parent = WantParent(fRun[r])

\* A run created a folder for a path segment and a later call for the same
\* (parent_id, name) was answered from the cache.
C33_Witness ==
    \E r \in FolderRuns :
        LET L == fRun[r].log
        IN  \E i, j \in DOMAIN L :
                /\ i < j
                /\ L[i].op = "create"
                /\ L[j].op = "hit"
                /\ SamePair(L[i], L[j])

\* Two folders of the same name under the same parent.
Duplicates(f, g) == f # g /\ f.name = g.name /\ f.parent = g.parent

\* The run that created the folder.
MadeBy(f) == CHOOSE r \in FolderRuns : f.id \in fRun[r].made

\* C34  Two runs executing concurrently against the same destination, each
\* with its own folder cache, can leave two folders of the same name under the
\* same parent (the witness); and such folders are only ever made by two
\* different runs that were under way at the same time, never by one run or by
\* runs made one after the other.
C34_ConcurrentRunsDuplicate ==
    \A f, g \in fDrive :
        Duplicates(f, g) =>
            /\ MadeBy(f) # MadeBy(g)
            /\ fRun[MadeBy(f)].overlapped
            /\ fRun[MadeBy(g)].overlapped

\* Two folders of the same name under the same parent exist.
C34_Witness == \E f, g \in fDrive : Duplicates(f, g)

\* C35  Ledger round trip: for every ledger state, a completed save followed
\* by a load of the same file in a new MigrationState gives the same done set
\* and the same failed map with the same reasons.
C35_LedgerRoundTrip ==
    rt.pc = "loaded" =>
        /\ rt.loaded.migrated = rt.ledger.migrated
        /\ \A i \in Items : rt.loaded.failed[i] = rt.ledger.failed[i]

\* A ledger with two done items and two failed ones, one of them also done,
\* was saved with the done items listed out of key order, and loaded back.
C35_Witness ==
    /\ rt.pc = "loaded"
    /\ rt.text.migrated = << 2, 1 >>
    /\ rt.ledger.failed[2] = "upload"
    /\ rt.ledger.failed[3] = "download"

\* A step inside one run, after its ledger was loaded.
InsideRun ==
    /\ pc # "idle" /\ pc' # "idle"
    /\ atStart.loaded /\ atStart'.loaded

\* C36  Done is never lost: no step of the engine takes an item out of the
\* done set.  Within a run the set in memory only grows; the load brings back
\* every item the file holds; a completed save writes every item in memory;
\* so the done set of a parsable ledger file only grows, step by step and from
\* one completed save to the next.
C36_DoneNeverLost ==
    [][ /\ InsideRun => state.migrated \subseteq state'.migrated
        /\ (pc = "load" /\ atStart'.loaded) =>
              stateFile.migrated \subseteq state'.migrated
        /\ (~Unparsable(stateFile) /\ ~Unparsable(stateFile')) =>
              stateFile.migrated \subseteq stateFile'.migrated
        /\ (Unparsable(stateFile) /\ ~Unparsable(stateFile')) =>
              /\ state.migrated \subseteq stateFile'.migrated
              /\ atStart.file.migrated \subseteq stateFile'.migrated
        /\ (InsideRun /\ ~Unparsable(stateFile')) =>
              stateFile'.migrated \subseteq state'.migrated
      ]_vars

\* A second run has ended with its save completed: the file holds an item
\* the first run had recorded done and an item the second run added.
C36_Witness ==
    /\ runs = 2
    /\ ended = "completed"
    /\ \E i, j \in Items :
          /\ i \in atStart.file.migrated /\ i \in stateFile.migrated
          /\ j \notin atStart.file.migrated /\ j \in stateFile.migrated

\* The run recorded the item done after its upload succeeded, or after the
\* existence check found its file.
DoneByUpload(i) ==
    outcome[i] = "migrated" /\ "upload" \in calls[i] /\ uploads[i] > 0
DoneByCheck(i) ==
    outcome[i] = "skipped" /\ "exists" \in calls[i] /\ skip_existing

\* C37  Done implies present: with the destination changed by the engine
\* only, every item recorded done, in memory or in a parsable ledger file, has
\* a non-trashed file of its name in its album's destination folder; and an
\* item the run has newly recorded done was recorded after a successful upload
\* or a positive existence check.
C37_DoneImpliesPresent ==
    /\ \A i \in state.migrated : file_exists(destFiles, i)
    /\ ~Unparsable(stateFile) => \A i \in stateFile.migrated : file_exists(destFiles, i)
    /\ (pc # "idle" /\ atStart.loaded) =>
          \A i \in state.migrated \ atStart.ledger.migrated :
              DoneByUpload(i) \/ DoneByCheck(i)

\* A run has recorded one item done after its upload and another after the
\* existence check found the file a crashed run had uploaded.
C37_Witness ==
    /\ pc # "idle"
    /\ atStart.loaded
    /\ \E i, j \in state.migrated \ atStart.ledger.migrated :
          DoneByUpload(i) /\ DoneByCheck(j)

\* The images of the albums before album number a.
RECURSIVE ImagesBefore(_)
ImagesBefore(a) == IF a <= 1 THEN 0 ELSE ImagesBefore(a - 1) + Len(albums[a - 1])

\* The images the loops have passed: those of the albums before the current
\* one, those before the current image, and the current image once its
\* outcome is counted and only the end of the loop body is left.
Passed ==
    ImagesBefore(albumIdx) + (imgIdx - 1)
        + (IF pc \in { "savecheck", "saving" } THEN 1 ELSE 0)

CounterSum == migrated_count + skipped_count + failed_count

\* C38  Counter conservation: in a run that is not a dry run every processed
\* image increments exactly one of the three counters: wherever the loops are,
\* migrated + skipped + failed is the number of images they have passed, which
\* is the number of images with an outcome; and a run that completed reports
\* counters whose sum is the number of listed images.
C38_CounterConservation ==
    /\ (pc \in ({ "album", "item" } \cup InItem) /\ ~dry_run) =>
          /\ CounterSum = Passed
          /\ CounterSum = Cardinality({ i \in Listed : outcome[i] # "none" })
    /\ (pc = "idle" /\ ended = "completed" /\ ~dry_run) =>
          atEnd.migrated + atEnd.skipped + atEnd.failed = Cardinality(Listed)

\* The loops are past several images, some migrated and some skipped.
C38_Witness ==
    /\ pc \in InItem
    /\ ~dry_run
    /\ migrated_count > 0
    /\ skipped_count > 0
    /\ CounterSum = Passed

\* The items a ledger records failed.
FailedIds(st) == { i \in Items : st.failed[i] # NoReason }

\* C39  CLI and GUI engines agree: from the same ledger, listing, destination
\* and flags, with the same outcomes of the external calls and no
\* cancellation, the two image loops take the same action for every image and
\* end with the same done set and the same set of failed items.
C39_EnginesAgree ==
    /\ ag.cli.acts = ag.gui.acts
    /\ ag.cli.st.migrated = ag.gui.st.migrated
    /\ FailedIds(ag.cli.st) = FailedIds(ag.gui.st)

\* What holds of the two loops: they agree as long as the staging file could
\* be made for the first image that reached the transfer.
C39_EnginesAgreeStaged ==
    (\A i \in AgreeItems : ag.oracle[i].rest # "tempfile") => C39_EnginesAgree

\* Both loops have passed every image, one of them migrated and one failed.
C39_WitnessStaged ==
    /\ ag.idx = MaxAgree + 1
    /\ \A i \in AgreeItems : ag.oracle[i].rest # "tempfile"
    /\ \E i, j \in AgreeItems :
          ag.gui.acts[i] = "migrate" /\ ag.cli.acts[j] = "fail"

====
